---- MODULE Spec2Model ----
(***************************************************************************)
(* Model of the mongo-uri-query parser: the operator algebra               *)
(* (operator.go), the value converters (convert.go), the filter assembler  *)
(* (query.go) and Parser.Parse with its extraction and normalisation       *)
(* passes.                                                                 *)
(*                                                                         *)
(* Go strings are modelled as sequences of one-character strings, so that  *)
(* prefix, suffix, substring, replace and split are computed the way the   *)
(* strings package computes them.                                          *)
(***************************************************************************)
EXTENDS Integers, Sequences, FiniteSets, TLC

(***************************************************************************)
(* package strings                                                         *)
(***************************************************************************)

\* strings.HasPrefix
HasPrefix(s, p) == Len(p) <= Len(s) /\ SubSeq(s, 1, Len(p)) = p

\* strings.HasSuffix
HasSuffix(s, p) == Len(p) <= Len(s) /\ SubSeq(s, Len(s) - Len(p) + 1, Len(s)) = p

\* strings.TrimPrefix
TrimPrefix(s, p) == IF HasPrefix(s, p) THEN SubSeq(s, Len(p) + 1, Len(s)) ELSE s

\* strings.TrimSuffix
TrimSuffix(s, p) == IF HasSuffix(s, p) THEN SubSeq(s, 1, Len(s) - Len(p)) ELSE s

\* strings.Index: the 0-based offset of the first occurrence of sub, or -1
Index(s, sub) ==
    LET hits == {i \in 0..(Len(s) - Len(sub)) : SubSeq(s, i + 1, i + Len(sub)) = sub}
    IN  IF hits = {} THEN -1 ELSE CHOOSE i \in hits : \A j \in hits : i <= j

\* strings.Contains
Contains(s, sub) == Index(s, sub) >= 0

RECURSIVE ReplaceAll(_, _, _)
\* strings.ReplaceAll, for a non-empty old
ReplaceAll(s, old, new) ==
    IF s = <<>> THEN <<>>
    ELSE IF HasPrefix(s, old)
         THEN new \o ReplaceAll(SubSeq(s, Len(old) + 1, Len(s)), old, new)
         ELSE <<Head(s)>> \o ReplaceAll(Tail(s), old, new)

RECURSIVE Split(_, _)
\* strings.Split, for a non-empty separator
Split(s, sep) ==
    LET pos == Index(s, sep)
    IN  IF pos < 0 THEN <<s>>
        ELSE <<SubSeq(s, 1, pos)>> \o Split(SubSeq(s, pos + Len(sep) + 1, Len(s)), sep)

UpperCase == <<"A","B","C","D","E","F","G","H","I","J","K","L","M",
               "N","O","P","Q","R","S","T","U","V","W","X","Y","Z">>
LowerCase == <<"a","b","c","d","e","f","g","h","i","j","k","l","m",
               "n","o","p","q","r","s","t","u","v","w","x","y","z">>

\* strings.ToLower
ToLower(s) ==
    [i \in 1..Len(s) |->
        IF \E k \in 1..Len(UpperCase) : UpperCase[k] = s[i]
        THEN LowerCase[CHOOSE k \in 1..Len(UpperCase) : UpperCase[k] = s[i]]
        ELSE s[i]]

(***************************************************************************)
(* operator.go: the operator vocabulary                                    *)
(***************************************************************************)

delimiter        == <<"_", "_">>
arrayDelimiter   == <<",">>
ignoreCasePrefix == <<"i">>
mongoOpPrefix    == <<"$">>

operatorIn                  == <<"i", "n">>
operatorInArray             == <<"[", "]">>
operatorEqualArray          == <<"e", "q", "a">>
operatorEquals              == <<"e", "q">>
operatorExists              == <<"e", "x", "i", "s", "t", "s">>
operatorGreaterThan         == <<"g", "t">>
operatorGreaterThanOrEquals == <<"g", "t", "e">>
operatorLessThan            == <<"l", "t">>
operatorLessThanOrEquals    == <<"l", "t", "e">>
operatorNotEquals           == <<"n", "e">>
operatorNotIn               == <<"n">> \o operatorIn
operatorAll                 == <<"a", "l", "l">>
operatorAllArray            == operatorAll \o operatorInArray

operatorContains                  == <<"c", "o">>
operatorContainsIgnoreCase        == ignoreCasePrefix \o operatorContains
operatorContainsIn                == operatorContains \o operatorIn
operatorContainsInIgnoreCase      == ignoreCasePrefix \o operatorContainsIn
operatorContainsInArray           == operatorContains \o operatorInArray
operatorContainsInArrayIgnoreCase == ignoreCasePrefix \o operatorContainsInArray

operatorRegex                  == <<"r", "e">>
operatorRegexIgnoreCase        == ignoreCasePrefix \o operatorRegex
operatorRegexIn                == operatorRegex \o operatorIn
operatorRegexInIgnoreCase      == ignoreCasePrefix \o operatorRegexIn
operatorRegexInArray           == operatorRegex \o operatorInArray
operatorRegexInArrayIgnoreCase == ignoreCasePrefix \o operatorRegexInArray

operatorStartsWith                  == <<"s", "w">>
operatorStartsWithIgnoreCase        == ignoreCasePrefix \o operatorStartsWith
operatorStartsWithIn                == operatorStartsWith \o operatorIn
operatorStartsWithInIgnoreCase      == ignoreCasePrefix \o operatorStartsWithIn
operatorStartsWithInArray           == operatorStartsWith \o operatorInArray
operatorStartsWithInArrayIgnoreCase == ignoreCasePrefix \o operatorStartsWithInArray

\* The tokens of the vocabulary, in the order allOperators lists them.
OperatorTokens == <<
    operatorAll, operatorAllArray, operatorContains, operatorContainsIgnoreCase,
    operatorContainsIn, operatorContainsInArray, operatorContainsInArrayIgnoreCase,
    operatorContainsInIgnoreCase, operatorEqualArray, operatorEquals, operatorExists,
    operatorGreaterThan, operatorGreaterThanOrEquals, operatorIn, operatorInArray,
    operatorLessThan, operatorLessThanOrEquals, operatorNotEquals, operatorNotIn,
    operatorRegex, operatorRegexIgnoreCase, operatorRegexIn, operatorRegexInArray,
    operatorRegexInArrayIgnoreCase, operatorRegexInIgnoreCase, operatorStartsWith,
    operatorStartsWithIgnoreCase, operatorStartsWithIn, operatorStartsWithInArray,
    operatorStartsWithInArrayIgnoreCase, operatorStartsWithInIgnoreCase >>

Vocabulary == {OperatorTokens[i] : i \in 1..Len(OperatorTokens)}

RECURSIVE JoinTokens(_)
JoinTokens(toks) ==
    IF toks = <<>> THEN delimiter
    ELSE delimiter \o Head(toks) \o JoinTokens(Tail(toks))

\* The one delimited constant: "__all__all[]__co__ico__ ... __iswin__"
allOperators == JoinTokens(OperatorTokens)

(***************************************************************************)
(* operator.go: the operator's methods                                     *)
(***************************************************************************)

\* operator.IsValid: a substring test against the delimited constant
IsValid(o) == Contains(allOperators, o)

\* operator.Is
\* Is with the prefix i trimmed on both sides
IsIgnoringCase(o, op) ==
    HasPrefix(TrimPrefix(ReplaceAll(o, operatorInArray, operatorIn), ignoreCasePrefix),
              TrimPrefix(op, ignoreCasePrefix))

\* Is as a comparison of the spellings as written
IsOfSpelling(o, op) == HasPrefix(o, op)

Is(o, op) ==
    IF HasSuffix(op, operatorInArray) THEN HasSuffix(o, op)
    ELSE IF o = operatorAllArray THEN op = operatorAll \/ op = o
    ELSE LET s1 == ReplaceAll(o, operatorInArray, operatorIn)
             s  == IF ~HasPrefix(op, ignoreCasePrefix)
                   THEN TrimPrefix(s1, ignoreCasePrefix)
                   ELSE s1
         IN  IF op = operatorIn THEN HasSuffix(s, op) ELSE HasPrefix(s, op)

\* operator.IsMultiVal
IsMultiVal(o) == Is(o, operatorIn) \/ Is(o, operatorAll) \/ o = operatorEqualArray

\* NeedSplitString with the test of the bracket spelling turned around
NeedSplitStringOfBrackets(o) == IsMultiVal(o) /\ Is(o, operatorInArray)

\* NeedSplitString without the test of the bracket spelling
NeedSplitStringOfAll(o) == IsMultiVal(o)

\* operator.NeedSplitString
NeedSplitString(o) == IsMultiVal(o) /\ ~Is(o, operatorInArray)

\* CommonOperator that leaves every spelling as it is written
CommonOperatorAsWritten(o) == o

\* operator.CommonOperator
CommonOperator(o) ==
    IF ~Is(o, operatorInArray) THEN o
    ELSE IF o = operatorAllArray THEN operatorAll
    ELSE TrimSuffix(o, operatorInArray) \o operatorIn

\* operator.SingleValueOperator
SingleValueOperator(o) ==
    LET commonOp == CommonOperator(o)
    IN  IF commonOp = operatorIn \/ commonOp = operatorAll \/ commonOp = operatorEquals
        THEN operatorEquals
        ELSE TrimSuffix(commonOp, operatorIn)

\* operator.IsRegex
IsRegex(o) == Is(o, operatorRegex)

\* operator.IsStartsWith
IsStartsWith(o) == Is(o, operatorStartsWith)

\* operator.IsContains
IsContains(o) == Is(o, operatorContains)

\* operator.IsIgnoreCaseOperator
IsIgnoreCaseOperator(o) ==
    \/ o = operatorContainsInIgnoreCase
    \/ o = operatorContainsIgnoreCase
    \/ o = operatorRegexIgnoreCase
    \/ o = operatorRegexInIgnoreCase
    \/ o = operatorStartsWithIgnoreCase
    \/ o = operatorStartsWithInIgnoreCase

\* operator.MongoOperator
\* the symbol as the prefix and the operator's own text, whatever the operator
MongoOperatorOfText(o) == mongoOpPrefix \o o

MongoOperator(o) ==
    IF o = operatorAllArray THEN mongoOpPrefix \o operatorAll
    ELSE IF IsMultiVal(o) /\ o # operatorAll /\ o # operatorEqualArray
            /\ o # operatorNotIn
    THEN mongoOpPrefix \o operatorIn
    ELSE IF o = operatorEqualArray \/ IsContains(o) \/ IsRegex(o) \/ IsStartsWith(o)
    THEN mongoOpPrefix \o operatorEquals
    ELSE mongoOpPrefix \o o

\* operator.RegexOpts
RegexOpts(o) == IF IsIgnoreCaseOperator(o) THEN ignoreCasePrefix ELSE <<>>

\* parseOperator: the (field, operator) pair of a raw key
parseOperator(fieldName) ==
    LET pos == Index(fieldName, delimiter)
    IN  IF pos > 0
        THEN [field |-> SubSeq(fieldName, 1, pos),
              op    |-> SubSeq(fieldName, pos + Len(delimiter) + 1, Len(fieldName))]
        ELSE IF pos < 0 /\ HasSuffix(fieldName, operatorInArray)
        THEN [field |-> SubSeq(fieldName, 1, Len(fieldName) - Len(operatorInArray)),
              op    |-> operatorInArray]
        ELSE [field |-> fieldName, op |-> operatorEquals]

(***************************************************************************)
(* Converted values.  A scalar is a record: t is its Go type, s its text   *)
(* (a string, the decimal digits of an int64, the literal of a float64 or  *)
(* of a time.Time, the pattern of a regular expression, the text handed to *)
(* the identifier factory), b the value of a bool, o the options of a      *)
(* regular expression.  A converter returns [ok, val, err].                *)
(***************************************************************************)

Scalar(t, s, b, o) == [t |-> t, s |-> s, b |-> b, o |-> o]

NilValue       == Scalar("nil", <<>>, FALSE, <<>>)
BoolValue(b)   == Scalar("bool", <<>>, b, <<>>)
StringValue(s) == Scalar("string", s, FALSE, <<>>)
IntValue(s)    == Scalar("int64", s, FALSE, <<>>)
FloatValue(s)  == Scalar("float64", s, FALSE, <<>>)
TimeValue(s)   == Scalar("time", s, FALSE, <<>>)
OidValue(s)    == Scalar("oid", s, FALSE, <<>>)
RegexValue(pattern, options) == Scalar("regex", pattern, FALSE, options)

Ok(v)     == [ok |-> TRUE, val |-> v, err |-> "nil"]
Fail(err) == [ok |-> FALSE, val |-> NilValue, err |-> err]

(***************************************************************************)
(* package strconv, as far as the converters use it                        *)
(***************************************************************************)

Digits == <<"0", "1", "2", "3", "4", "5", "6", "7", "8", "9">>

IsDigit(c) == \E k \in 1..Len(Digits) : Digits[k] = c

DigitValue(c) == (CHOOSE k \in 1..Len(Digits) : Digits[k] = c) - 1

AllDigits(s) == \A i \in 1..Len(s) : IsDigit(s[i])

RECURSIVE StripZeros(_)
\* a digit string without its leading zeros ("0" for zero)
StripZeros(s) ==
    IF Len(s) > 1 /\ Head(s) = "0" THEN StripZeros(Tail(s)) ELSE s

RECURSIVE DigitsLess(_, _)
\* a < b for digit strings of equal length
DigitsLess(a, b) ==
    IF a = <<>> THEN FALSE
    ELSE IF Head(a) # Head(b) THEN DigitValue(Head(a)) < DigitValue(Head(b))
    ELSE DigitsLess(Tail(a), Tail(b))

\* a > b for digit strings without leading zeros
DigitsGreater(a, b) ==
    \/ Len(a) > Len(b)
    \/ Len(a) = Len(b) /\ DigitsLess(b, a)

RECURSIVE DigitsToNat(_)
DigitsToNat(s) ==
    IF s = <<>> THEN 0
    ELSE 10 * DigitsToNat(SubSeq(s, 1, Len(s) - 1)) + DigitValue(s[Len(s)])

\* the decimal digits of 2^bitSize - 1, 2^(bitSize-1) - 1 and 2^(bitSize-1)
MaxUintDigits(bitSize) ==
    IF bitSize = 31 THEN <<"2","1","4","7","4","8","3","6","4","7">>
    ELSE <<"1","8","4","4","6","7","4","4","0","7","3","7","0","9","5","5","1","6","1","5">>
MaxIntDigits(bitSize) ==
    IF bitSize = 31 THEN <<"1","0","7","3","7","4","1","8","2","3">>
    ELSE <<"9","2","2","3","3","7","2","0","3","6","8","5","4","7","7","5","8","0","7">>
CutoffDigits(bitSize) ==
    IF bitSize = 31 THEN <<"1","0","7","3","7","4","1","8","2","4">>
    ELSE <<"9","2","2","3","3","7","2","0","3","6","8","5","4","7","7","5","8","0","8">>

\* strconv.ParseUint in base 10: the scan stops at the first character that is
\* no digit (a syntax error) or at the first prefix above 2^bitSize - 1 (a
\* range error), whichever comes first.
ParseUint(s, bitSize) ==
    LET bad == {i \in 1..Len(s) :
                   \/ ~IsDigit(s[i])
                   \/ /\ AllDigits(SubSeq(s, 1, i))
                      /\ DigitsGreater(StripZeros(SubSeq(s, 1, i)), MaxUintDigits(bitSize))}
        first == CHOOSE i \in bad : \A j \in bad : i <= j
    IN  IF s = <<>> THEN [err |-> "ErrSyntax", digits |-> <<"0">>]
        ELSE IF bad = {} THEN [err |-> "nil", digits |-> StripZeros(s)]
        ELSE IF ~IsDigit(s[first]) THEN [err |-> "ErrSyntax", digits |-> <<"0">>]
        ELSE [err |-> "ErrRange", digits |-> MaxUintDigits(bitSize)]

\* strconv.ParseInt(s, 10, bitSize): [err, neg, digits], the value being the
\* number digits spells, negated when neg.  A range error returns the nearest
\* representable value, a syntax error returns 0.
ParseInt(s, bitSize) ==
    LET neg  == s # <<>> /\ Head(s) = "-"
        body == IF s # <<>> /\ (Head(s) = "+" \/ Head(s) = "-") THEN Tail(s) ELSE s
        un   == ParseUint(body, bitSize)
    IN  IF s = <<>> THEN [err |-> "ErrSyntax", neg |-> FALSE, digits |-> <<"0">>]
        ELSE IF un.err = "ErrSyntax"
        THEN [err |-> "ErrSyntax", neg |-> FALSE, digits |-> <<"0">>]
        ELSE IF ~neg /\ (un.err = "ErrRange"
                         \/ ~DigitsGreater(CutoffDigits(bitSize), un.digits))
        THEN [err |-> "ErrRange", neg |-> FALSE, digits |-> MaxIntDigits(bitSize)]
        ELSE IF neg /\ (un.err = "ErrRange"
                        \/ DigitsGreater(un.digits, CutoffDigits(bitSize)))
        THEN [err |-> "ErrRange", neg |-> TRUE, digits |-> CutoffDigits(bitSize)]
        ELSE [err |-> "nil", neg |-> neg /\ un.digits # <<"0">>, digits |-> un.digits]

\* the longest prefix of s made of digits
RECURSIVE DigitRun(_)
DigitRun(s) ==
    IF s # <<>> /\ IsDigit(Head(s)) THEN <<Head(s)>> \o DigitRun(Tail(s)) ELSE <<>>

\* strconv.ParseFloat(s, 64) accepts s: the decimal literals (sign, digits with
\* at most one point and at least one digit, an exponent) and the special
\* values inf, infinity and nan.  Hexadecimal literals and digit-separating
\* underscores are not modelled.
IsFloatLiteral(s) ==
    LET signed == s # <<>> /\ (Head(s) = "+" \/ Head(s) = "-")
        body == IF signed THEN Tail(s) ELSE s
        int  == DigitRun(body)
        r1   == SubSeq(body, Len(int) + 1, Len(body))
        frac == IF r1 # <<>> /\ Head(r1) = "." THEN DigitRun(Tail(r1)) ELSE <<>>
        r2   == IF r1 # <<>> /\ Head(r1) = "."
                THEN SubSeq(r1, Len(frac) + 2, Len(r1)) ELSE r1
        e1   == IF r2 # <<>> THEN Tail(r2) ELSE <<>>
        e2   == IF e1 # <<>> /\ (Head(e1) = "+" \/ Head(e1) = "-") THEN Tail(e1) ELSE e1
        low  == ToLower(body)
    IN  \/ low = <<"i","n","f">>
        \/ low = <<"i","n","f","i","n","i","t","y">>
        \/ ToLower(s) = <<"n","a","n">>
        \/ /\ Len(int) + Len(frac) > 0
           /\ \/ r2 = <<>>
              \/ /\ ToLower(<<Head(r2)>>) = <<"e">>
                 /\ e2 # <<>>
                 /\ AllDigits(e2)

(***************************************************************************)
(* package time, as far as Date uses it: the texts time.Parse accepts      *)
(* under the five layouts of Date.                                         *)
(***************************************************************************)

TwoDigits(s, i) == i + 1 <= Len(s) /\ IsDigit(s[i]) /\ IsDigit(s[i + 1])

NumAt(s, i, n) == DigitsToNat(SubSeq(s, i, i + n - 1))

DaysIn(month, year) ==
    IF month = 2
    THEN IF year % 4 = 0 /\ (year % 100 # 0 \/ year % 400 = 0) THEN 29 ELSE 28
    ELSE IF month \in {4, 6, 9, 11} THEN 30 ELSE 31

\* layout "2006-01-02" matches the first ten characters of s
IsDatePrefix(s) ==
    /\ Len(s) >= 10
    /\ AllDigits(SubSeq(s, 1, 4)) /\ s[5] = "-"
    /\ TwoDigits(s, 6) /\ s[8] = "-" /\ TwoDigits(s, 9)
    /\ NumAt(s, 6, 2) \in 1..12
    /\ NumAt(s, 9, 2) \in 1..DaysIn(NumAt(s, 6, 2), NumAt(s, 1, 4))

\* "T15:04:05" at offset 11, then an optional fraction, then "Z", then an
\* optional numeric zone "-0700"
IsTimeSuffix(s) ==
    LET frac == IF Len(s) >= 21 /\ s[20] = "." /\ IsDigit(s[21])
                THEN <<".">> \o DigitRun(SubSeq(s, 21, Len(s)))
                ELSE <<>>
        rest == SubSeq(s, 20 + Len(frac), Len(s))
    IN  /\ Len(s) >= 20
        /\ s[11] = "T" /\ TwoDigits(s, 12) /\ s[14] = ":"
        /\ TwoDigits(s, 15) /\ s[17] = ":" /\ TwoDigits(s, 18)
        /\ NumAt(s, 12, 2) < 24 /\ NumAt(s, 15, 2) < 60 /\ NumAt(s, 18, 2) < 60
        /\ rest # <<>> /\ Head(rest) = "Z"
        /\ \/ Len(rest) = 1
           \/ /\ Len(rest) = 6
              /\ rest[2] \in {"+", "-"}
              /\ AllDigits(SubSeq(rest, 3, 6))
              /\ NumAt(rest, 3, 2) <= 24 /\ NumAt(rest, 5, 2) < 60

IsDateLiteral(s) == IsDatePrefix(s) /\ (Len(s) = 10 \/ IsTimeSuffix(s))

(***************************************************************************)
(* convert.go                                                              *)
(***************************************************************************)

\* Primitives.ObjectID of the caller: the factory of the tests wraps the text
PrimitiveObjectID(val) == Ok(OidValue(val))

\* Primitives.RegEx of the caller: the factory of the tests keeps both texts
PrimitiveRegEx(pattern, options) == Ok(RegexValue(pattern, options))

\* String()
String(val) == Ok(StringValue(val))

\* Int(): the error of strconv.ParseInt is returned as it is
IntFunc(val) ==
    LET r == ParseInt(val, 64)
    IN  IF r.err = "nil"
        THEN Ok(IntValue(IF r.neg THEN <<"-">> \o r.digits ELSE r.digits))
        ELSE Fail(r.err)

\* Double(): the error of strconv.ParseFloat is returned as it is
Double(val) == IF IsFloatLiteral(val) THEN Ok(FloatValue(val)) ELSE Fail("ErrSyntax")

\* Bool()
Bool(val) ==
    LET low == ToLower(val)
    IN  IF low = <<"t","r","u","e">> \/ low = <<"y","e","s">> THEN Ok(BoolValue(TRUE))
        ELSE IF low = <<"f","a","l","s","e">> \/ low = <<"n","o">> THEN Ok(BoolValue(FALSE))
        ELSE Fail("ErrNoMatch")

IsHexDigit(c) ==
    IsDigit(c) \/ c \in {"a","b","c","d","e","f","A","B","C","D","E","F"}

\* the width the pattern of ObjectID asks for
ObjectIDWidth == 12

\* ObjectID(primitive): the pattern "^[0-9a-fA-F]{12}" is anchored at the
\* start only
ObjectID(val) ==
    IF Len(val) >= ObjectIDWidth /\ \A i \in 1..ObjectIDWidth : IsHexDigit(val[i])
    THEN PrimitiveObjectID(val)
    ELSE Fail("ErrNoMatch")

\* Date()
Date(val) == IF IsDateLiteral(val) THEN Ok(TimeValue(val)) ELSE Fail("ErrNoMatch")

\* A ConvertFunc by its name
ConvertFunc(name, val) ==
    CASE name = "Bool"     -> Bool(val)
      [] name = "ObjectID" -> ObjectID(val)
      [] name = "Int"      -> IntFunc(val)
      [] name = "Double"   -> Double(val)
      [] name = "Date"     -> Date(val)
      [] name = "String"   -> String(val)

\* NewDefaultConverter(p).Funcs for a non-nil p
DefaultFuncs == <<"ObjectID", "Int", "Double", "Date", "String">>

\* the reverse preference: the result of a later converter when it accepts
OrElseLater(r, next) == IF next.ok THEN next ELSE r

\* "if err == nil { return }": the result r when it is no error, else next
OrElse(r, next) == IF r.ok THEN r ELSE next

RECURSIVE FirstMatch(_, _)
\* the loop of TypeConverter.Convert over c.Funcs
FirstMatch(funcs, val) ==
    IF funcs = <<>> THEN Fail("ErrNoMatch")
    ELSE OrElse(ConvertFunc(Head(funcs), val), FirstMatch(Tail(funcs), val))

\* TypeConverter.Convert, for the converter c = [Bool, Funcs]
TypeConverterConvert(c, val) ==
    OrElse(ConvertFunc(c.Bool, val), FirstMatch(c.Funcs, val))

(***************************************************************************)
(* Go maps are functions on their key set.                                 *)
(***************************************************************************)

EmptyMap == [k \in {} |-> {}]

Put(m, k, v) == [x \in (DOMAIN m) \cup {k} |-> IF x = k THEN v ELSE m[x]]

Delete(m, k) == [x \in (DOMAIN m) \ {k} |-> m[x]]

\* the orders in which a range loop may visit the keys S
Orders(S) ==
    {p \in [1..Cardinality(S) -> S] : \A i, j \in DOMAIN p : p[i] = p[j] => i = j}

(***************************************************************************)
(* query.go: the filter assembler.  An interface{} value of the filter is  *)
(* [arr, items]: nil has no item, a scalar has one, a []interface{} has    *)
(* arr set.  A filter entry is a bare value or a nested map M.             *)
(***************************************************************************)

Nil        == [arr |-> FALSE, items |-> <<>>]
One(v)     == [arr |-> FALSE, items |-> <<v>>]
Arr(items) == [arr |-> TRUE, items |-> items]

Bare(v)    == [isMap |-> FALSE, val |-> v, mm |-> EmptyMap]
Nested(mm) == [isMap |-> TRUE, val |-> Nil, mm |-> mm]

\* appendArray that replaces what is stored by the new values
appendArrayOfValues(array, values) ==
    Arr(IF values.arr THEN values.items
        ELSE IF values # Nil THEN values.items ELSE <<>>)

\* appendArray
appendArray(array, values) ==
    LET fArray == IF array.arr THEN array.items
                  ELSE IF array # Nil THEN array.items ELSE <<>>
        vArray == IF values.arr THEN values.items
                  ELSE IF values # Nil THEN values.items ELSE <<>>
    IN  Arr(fArray \o vArray)

\* addField
addField(filter, field, op, val) ==
    LET exists == field \in DOMAIN filter
        isMap  == exists /\ filter[field].isMap
        f      == IF exists /\ ~isMap THEN filter[field].val ELSE Nil
        mm     == IF isMap THEN filter[field].mm
                  ELSE IF f # Nil THEN Put(EmptyMap, MongoOperator(operatorEquals), f)
                  ELSE EmptyMap
        arr    == IF MongoOperator(op) \in DOMAIN mm THEN mm[MongoOperator(op)] ELSE Nil
        v      == IF IsMultiVal(op) THEN appendArray(arr, val) ELSE val
    IN  IF ~isMap /\ op = operatorEquals
        THEN Put(filter, field, Bare(val))
        ELSE Put(filter, field, Nested(Put(mm, MongoOperator(op), v)))

(***************************************************************************)
(* The Parser: extraction and normalisation of the raw keys                *)
(***************************************************************************)

limitParam == <<"l", "i", "m", "i", "t">>
skipParam  == <<"s", "k", "i", "p">>
sortParam  == <<"s", "o", "r", "t">>

sortAscPrefix  == <<"+">>
sortDescPrefix == <<"-">>
sortAsc  == 1
sortDesc == -1

\* operatorsMap values after the first loop of normailzeFields, the operators
\* being visited in the given order
RECURSIVE GroupByCommon(_, _, _)
GroupByCommon(ops, order, ff) ==
    IF order = <<>> THEN ff
    ELSE LET op  == Head(order)
             cop == CommonOperator(op)
             arr == IF Len(ops[op]) = 1 /\ NeedSplitString(op)
                    THEN Split(ops[op][1], arrayDelimiter)
                    ELSE ops[op]
             old == IF cop \in DOMAIN ff THEN ff[cop] ELSE <<>>
         IN  GroupByCommon(ops, Tail(order), Put(ff, cop, old \o arr))

\* normailzeFields without its second loop
DowngradeNothing(ff, order) == ff

\* the second loop of normailzeFields: a group of one value under a multi-value
\* operator is stored under SingleValueOperator and then deleted under its own
\* operator
RECURSIVE Downgrade(_, _)
Downgrade(ff, order) ==
    IF order = <<>> THEN ff
    ELSE LET op == Head(order)
         IN  IF op \notin DOMAIN ff \/ Len(ff[op]) # 1 \/ ~IsMultiVal(op)
             THEN Downgrade(ff, Tail(order))
             ELSE Downgrade(Delete(Put(ff, SingleValueOperator(op), ff[op]), op),
                            Tail(order))

\* what normailzeFields may give for one field, over the orders in which the
\* two range loops may visit the operators
NormalizedOps(ops) ==
    {Downgrade(ff, o2) :
        ff \in {GroupByCommon(ops, o1, EmptyMap) : o1 \in Orders(DOMAIN ops)},
        o2 \in Orders({CommonOperator(op) : op \in DOMAIN ops})}

\* normailzeFields: the possible results
normailzeFields(fields) ==
    {n \in [DOMAIN fields -> UNION {NormalizedOps(fields[f]) : f \in DOMAIN fields}] :
        \A f \in DOMAIN fields : n[f] \in NormalizedOps(fields[f])}

\* the field name extractFields files the raw key k under: map[like][field]
\* becomes map.like.field
FieldOf(k) ==
    ReplaceAll(ReplaceAll(parseOperator(k).field, <<"[">>, <<".">>), <<"]">>, <<>>)

\* the operator extractFields files the raw key k under
OperatorOf(k) == parseOperator(k).op

\* the loop of extractFields, the keys being visited in the given order
RECURSIVE CollectFields(_, _, _)
CollectFields(query, order, fields) ==
    IF order = <<>> THEN fields
    ELSE LET k     == Head(order)
             field == FieldOf(k)
             op    == OperatorOf(k)
             f     == IF field \in DOMAIN fields THEN fields[field] ELSE EmptyMap
             arr   == IF op \in DOMAIN f THEN f[op] \o query[k] ELSE query[k]
         IN  IF HasPrefix(k, delimiter)
             THEN CollectFields(query, Tail(order), fields)
             ELSE CollectFields(query, Tail(order), Put(fields, field, Put(f, op, arr)))

\* extractFields: the possible results
extractFields(query) ==
    UNION {normailzeFields(CollectFields(query, o, EmptyMap)) : o \in Orders(DOMAIN query)}

(***************************************************************************)
(* The Parser: conversion.  A Converter is [kind, name, opts]: nil, one of *)
(* the ConvertFuncs by name, the parser's TypeConverter, or the function   *)
(* Parser.regex returns (name is its translation, opts its options).       *)
(***************************************************************************)

NilConverter   == [kind |-> "nil", name |-> "", opts |-> <<>>]
FuncConverter(name) == [kind |-> "func", name |-> name, opts |-> <<>>]
TypeConverter  == [kind |-> "type", name |-> "", opts |-> <<>>]
RegexConverter(opts, translate) == [kind |-> "regex", name |-> translate, opts |-> opts]

\* Parser.Converter: NewDefaultConverter(p) with the primitives of the tests
ParserConverter == [Bool |-> "Bool", Funcs |-> DefaultFuncs]

replaceChars == <<".", "*", "?", "+", "^", "$", "[", "]", "(", ")", "{", "}", "|", "-">>
escapeSymbol == <<"\\">>

RECURSIVE regEscape(_)
\* Parser.regEscape: the replacer built once from replaceChars
regEscape(val) ==
    IF val = <<>> THEN <<>>
    ELSE (IF \E i \in 1..Len(replaceChars) : replaceChars[i] = Head(val)
          THEN escapeSymbol \o <<Head(val)>>
          ELSE <<Head(val)>>) \o regEscape(Tail(val))

\* nop(), Parser.regEscape and sw(Parser.regEscape)
Translate(name, val) ==
    CASE name = "nop"    -> val
      [] name = "escape" -> regEscape(val)
      [] name = "sw"     -> <<"^">> \o regEscape(val)

\* Converter.Convert
Convert(c, val) ==
    CASE c.kind = "func"  -> ConvertFunc(c.name, val)
      [] c.kind = "type"  -> TypeConverterConvert(ParserConverter, val)
      [] c.kind = "regex" -> PrimitiveRegEx(Translate(c.name, val), c.opts)

\* one turn of the loop of mapValues: the converted element r before the
\* outcome of the elements after it
MapStep(r, rest) ==
    IF ~r.ok THEN [ok |-> FALSE, val |-> Nil, err |-> r.err]
    ELSE IF ~rest.ok THEN rest
    ELSE [ok |-> TRUE, val |-> Arr(<<r.val>> \o rest.val.items), err |-> "nil"]

RECURSIVE mapValues(_, _)
\* mapValues: the first failing element fails the whole
mapValues(values, c) ==
    IF values = <<>> THEN [ok |-> TRUE, val |-> Arr(<<>>), err |-> "nil"]
    ELSE MapStep(Convert(c, Head(values)), mapValues(Tail(values), c))

\* the single value of convertArray: "return c.Convert(v[0])"
SingleValue(r) == [ok |-> r.ok, val |-> IF r.ok THEN One(r.val) ELSE Nil, err |-> r.err]

\* convertArray that converts the first value of a single-value operator
\* whatever the number of values
convertArrayOfFirst(v, op, c) ==
    IF c = NilConverter THEN [ok |-> FALSE, val |-> Nil, err |-> "ErrNoConverter"]
    ELSE IF IsMultiVal(op) THEN mapValues(v, c)
    ELSE IF Len(v) >= 1
         THEN SingleValue(Convert(c, v[1]))
    ELSE [ok |-> TRUE, val |-> Nil, err |-> "nil"]

\* convertArray
convertArray(v, op, c) ==
    IF c = NilConverter THEN [ok |-> FALSE, val |-> Nil, err |-> "ErrNoConverter"]
    ELSE IF IsMultiVal(op) THEN mapValues(v, c)
    ELSE IF Len(v) > 1 THEN [ok |-> FALSE, val |-> Nil, err |-> "ErrTooManyValues"]
    ELSE IF Len(v) = 1
         THEN SingleValue(Convert(c, v[1]))
    ELSE [ok |-> TRUE, val |-> Nil, err |-> "nil"]

\* Fields.HasField
HasField(Fields, name) == name \in DOMAIN Fields

\* the choice that keeps the converter of a configured field for every operator
ChooseConverterOfField(p, field, op) ==
    IF HasField(p.Fields, field) THEN p.Fields[field].Converter
    ELSE IF IsRegex(op) THEN RegexConverter(RegexOpts(op), "nop")
    ELSE IF IsContains(op) THEN RegexConverter(RegexOpts(op), "escape")
    ELSE IF IsStartsWith(op) THEN RegexConverter(RegexOpts(op), "sw")
    ELSE IF op = operatorExists THEN FuncConverter(ParserConverter.Bool)
    ELSE TypeConverter

\* the converter Parser.convert chooses for the field and the operator
ChooseConverter(p, field, op) ==
    LET conv == IF HasField(p.Fields, field) THEN p.Fields[field].Converter
                ELSE IF op = operatorExists THEN FuncConverter(ParserConverter.Bool)
                ELSE TypeConverter
    IN  IF IsRegex(op) THEN RegexConverter(RegexOpts(op), "nop")
        ELSE IF IsContains(op) THEN RegexConverter(RegexOpts(op), "escape")
        ELSE IF IsStartsWith(op) THEN RegexConverter(RegexOpts(op), "sw")
        ELSE conv

\* Parser.convert
convert(p, field, op, v) ==
    IF ~IsValid(op) THEN [ok |-> FALSE, val |-> Nil, err |-> "ErrUnknownOperator"]
    ELSE IF ~HasField(p.Fields, field) /\ p.ValidateFields
    THEN [ok |-> FALSE, val |-> Nil, err |-> "ErrNoFieldSpec"]
    ELSE convertArray(v, op, ChooseConverter(p, field, op))

\* url.Values.Get: the first value of the key, "" without one
Get(params, key) ==
    IF key \in DOMAIN params /\ params[key] # <<>> THEN params[key][1] ELSE <<>>

\* the number an accepted or clamped ParseInt result stands for
IntOf(r) == IF r.neg THEN 0 - DigitsToNat(r.digits) ELSE DigitsToNat(r.digits)

\* parseIntParam
parseIntParam(params, name) ==
    LET str == Get(params, delimiter \o name)
        r   == ParseInt(str, 31)
    IN  IF Len(str) # 0
        THEN [val |-> IntOf(r), err |-> r.err]
        ELSE [val |-> 0, err |-> "nil"]

RECURSIVE SplitAll(_)
SplitAll(sortParams) ==
    IF sortParams = <<>> THEN <<>>
    ELSE Split(Head(sortParams), arrayDelimiter) \o SplitAll(Tail(sortParams))

\* getSortFields that reads the first occurrence of the directive alone
getSortFieldsOfFirst(params) ==
    IF (delimiter \o sortParam) \notin DOMAIN params THEN <<>>
    ELSE Split(Get(params, delimiter \o sortParam), arrayDelimiter)

\* getSortFields
getSortFields(params) ==
    IF (delimiter \o sortParam) \notin DOMAIN params THEN <<>>
    ELSE SplitAll(params[delimiter \o sortParam])

(***************************************************************************)
(* Query.AddSort with the element factory, and the factory of the tests    *)
(***************************************************************************)

\* the sort fields the element factory of the tests rejects
forbidSortFields == {<<"z">>}

\* Primitives.DocElem of the caller
PrimitiveDocElem(key, val) ==
    IF key \in forbidSortFields
    THEN [ok |-> FALSE, elem |-> [K |-> key, V |-> val], err |-> "ErrNoSortField"]
    ELSE [ok |-> TRUE, elem |-> [K |-> key, V |-> val], err |-> "nil"]

\* Query.AddSort(val, docElem): [fieldName, ok, err, Sort]
AddSort(Sort, val) ==
    LET trimmed   == TrimPrefix(val, sortAscPrefix)
        desc      == HasPrefix(trimmed, sortDescPrefix)
        fieldName == IF desc THEN Tail(trimmed) ELSE trimmed
        d         == PrimitiveDocElem(fieldName, IF desc THEN sortDesc ELSE sortAsc)
    IN  [fieldName |-> fieldName, ok |-> d.ok, err |-> d.err,
         Sort |-> IF d.ok THEN Append(Sort, d.elem) ELSE Sort]

(***************************************************************************)
(* Parser.Parse as a state machine.  One behaviour is one call: query is   *)
(* its url.Values, parser the Parser it is called on; Filter, Sort, Limit  *)
(* and Skip are the fields of the Query being built, errs the multierror,  *)
(* err the returned error.                                                 *)
(***************************************************************************)

VARIABLES query, parser, pc, fields, pending, cur, Filter, Sort, Limit, Skip,
          sortFields, errs, err

\* What lies beside one Parse call.  call and ret are a call of one function
\* of the package on its own and what it returned; calls are the AddFilter
\* calls made on the Query directly; initRegescape and rxRegEscape are the
\* sync.Once and the replacer of the Parser, gor the goroutines that call
\* Parser.regEscape on it, inits the runs of the initializer so far.
VARIABLES call, ret, calls, initRegescape, rxRegEscape, gor, inits

vars == <<query, parser, pc, fields, pending, cur, Filter, Sort, Limit, Skip,
          sortFields, errs, err,
          call, ret, calls, initRegescape, rxRegEscape, gor, inits>>

\* the variables of one Parse call, but for the Filter
parseVars == <<query, parser, pc, fields, pending, cur, Sort, Limit, Skip,
               sortFields, errs, err>>

unitVars == <<call, ret>>

onceVars == <<initRegescape, rxRegEscape, gor, inits>>

\* no function is called on its own
NoCall == [fn |-> "none"]

UnitIdle == call = NoCall /\ ret = NoCall

\* the Parser is fresh and no goroutine uses it
OnceIdle ==
    /\ initRegescape = [done |-> 0, m |-> 0]
    /\ rxRegEscape = "nil"
    /\ gor = <<>>
    /\ inits = 0

\* the most keys a query holds
MaxKeys == 2

\* the raw keys of the queries, each with the value lists it may carry
QueryMenu ==
    <<"f">> :> {<<<<"a">>>>} @@
    <<"f", "_", "_", "i", "n">> :> {<<<<"a", ",", "1">>>>, <<<<"b">>>>, <<<<"a", ",", "b">>, <<"c">>>>} @@
    <<"f", "[", "]">> :> {<<<<"a">>, <<"b">>>>, <<<<"a", ",", "b">>>>, <<<<"a">>>>} @@
    <<"f", "_", "_", "r", "e", "i", "n">> :> {<<<<"a">>>>, <<<<"a", ",", "b">>>>} @@
    <<"f", "_", "_", "r", "e", "[", "]">> :> {<<<<"b">>>>, <<<<"a", ",", "b">>>>, <<<<"b">>, <<"c">>>>} @@
    <<"f", "_", "_", "i", "r", "e", "i", "n">> :> {<<<<"a", ",", "c">>>>} @@
    <<"f", "_", "_", "e", "q", "a">> :> {<<<<"a">>>>} @@
    <<"f", "_", "_", "e", "x", "i", "s", "t", "s">> :> {<<<<"y", "e", "s">>>>, <<<<"1">>>>} @@
    <<"h", "_", "_", "e", "x", "i", "s", "t", "s">> :> {<<<<"y", "e", "s">>>>, <<<<"1">>>>} @@
    <<"h">> :> {<<<<"5">>>>, <<<<"x">>>>} @@
    <<"g">> :> {<<<<"N", "o">>>>, <<<<"x">>>>} @@
    <<"f", "_", "_", "z", "z">> :> {<<<<"a">>>>} @@
    <<"f", "_", "_">> :> {<<<<"a">>>>} @@
    <<"f", "_", "_", "e">> :> {<<<<"a">>>>} @@
    <<"_", "_", "l", "i", "m", "i", "t">> :> {<<<<"1", "0">>>>, <<<<"t", "e", "n">>>>, <<<<"-", "5">>>>, <<<<"1", "0", "7", "3", "7", "4", "1", "8", "2", "4">>>>, <<<<>>>>, <<<<"2", "0">>, <<"3", "0">>>>} @@
    <<"_", "_", "s", "k", "i", "p">> :> {<<<<"7">>>>, <<<<"x">>>>, <<<<"-", "1">>>>} @@
    <<"_", "_", "s", "o", "r", "t">> :> {<<<<"-", "f", ",", "g">>>>, <<<<"z">>, <<"+", "h">>>>,
                                          <<<<"a", ",", "-", "b">>, <<"c">>>>,
                                          <<<<"f", ",", "z", ",", "-", "g">>>>}

RECURSIVE QueriesOver(_)
QueriesOver(keys) ==
    IF keys = {} THEN {EmptyMap}
    ELSE LET k == CHOOSE k \in keys : TRUE
         IN  {Put(q, k, vs) : q \in QueriesOver(keys \ {k}), vs \in QueryMenu[k]}

Queries ==
    UNION {QueriesOver(keys) : keys \in {D \in SUBSET DOMAIN QueryMenu : Cardinality(D) <= MaxKeys}}

Field(converter, required) == [Converter |-> converter, Required |-> required]

NoFields == EmptyMap

SpecFields ==
    <<"g">> :> Field(FuncConverter("Bool"), TRUE) @@
    <<"h">> :> Field(FuncConverter("Int"), TRUE)

Parsers == [Fields : {NoFields, SpecFields}, ValidateFields : BOOLEAN]

Error(kind, item, op) == [kind |-> kind, item |-> item, op |-> op]

Init ==
    /\ query \in Queries
    /\ parser \in Parsers
    /\ pc = "extract"
    /\ fields = EmptyMap
    /\ pending = {}
    /\ cur = <<>>
    /\ Filter = EmptyMap
    /\ Sort = <<>>
    /\ Limit = 0
    /\ Skip = 0
    /\ sortFields = <<>>
    /\ errs = <<>>
    /\ err = "nil"
    /\ calls = <<>>
    /\ UnitIdle
    /\ OnceIdle

\* parseFilter: fields := extractFields(query)
ExtractFields ==
    /\ pc = "extract"
    /\ \E fs \in extractFields(query) :
          /\ fields' = fs
          /\ pending' = {<<f, op>> : f \in DOMAIN fs, op \in UNION {DOMAIN fs[g] : g \in DOMAIN fs}}
                          \cap {fo \in (DOMAIN fs) \X UNION {DOMAIN fs[g] : g \in DOMAIN fs} :
                                   fo[2] \in DOMAIN fs[fo[1]]}
    /\ pc' = "filter"
    /\ UNCHANGED <<query, parser, cur, Filter, Sort, Limit, Skip, sortFields, errs, err>>
    /\ UNCHANGED <<calls, unitVars, onceVars>>

\* parseFilter: one turn of the inner loop, p.convert and AddFilter or the
\* error; the operators of one field are visited together
ConvertField(field, op) ==
    /\ pc = "filter"
    /\ <<field, op>> \in pending
    /\ field = cur \/ \A fo \in pending : fo[1] # cur
    /\ \E r \in {convert(parser, field, op, fields[field][op])} :
           IF r.ok
           THEN /\ Filter' = addField(Filter, field, op, r.val)
                /\ errs' = errs
           ELSE /\ Filter' = Filter
                /\ errs' = Append(errs, Error(r.err, field, op))
    /\ pending' = pending \ {<<field, op>>}
    /\ cur' = field
    /\ UNCHANGED <<query, parser, pc, fields, Sort, Limit, Skip, sortFields, err>>
    /\ UNCHANGED <<calls, unitVars, onceVars>>

RECURSIVE MissingErrors(_)
MissingErrors(order) ==
    IF order = <<>> THEN <<>>
    ELSE <<Error("ErrMissingField", Head(order), <<>>)>> \o MissingErrors(Tail(order))

\* parseFilter: the loop over p.Fields that reports the required fields the
\* filter has no entry for
CheckRequired ==
    /\ pc = "filter"
    /\ pending = {}
    /\ \E order \in Orders({f \in DOMAIN parser.Fields :
                              parser.Fields[f].Required /\ f \notin DOMAIN Filter}) :
          errs' = errs \o MissingErrors(order)
    /\ pc' = "limit"
    /\ UNCHANGED <<query, parser, fields, pending, cur, Filter, Sort, Limit, Skip,
                   sortFields, err>>
    /\ UNCHANGED <<calls, unitVars, onceVars>>

\* Parse: filter.Limit, err = parseIntParam(params, limitParam)
ParseLimit ==
    /\ pc = "limit"
    /\ LET r == parseIntParam(query, limitParam)
       IN  /\ Limit' = r.val
           /\ errs' = IF r.err # "nil" THEN Append(errs, Error(r.err, limitParam, <<>>))
                      ELSE errs
    /\ pc' = "skip"
    /\ UNCHANGED <<query, parser, fields, pending, cur, Filter, Sort, Skip, sortFields, err>>
    /\ UNCHANGED <<calls, unitVars, onceVars>>

\* Parse: filter.Skip, err = parseIntParam(params, skipParam), then
\* sortFields := getSortFields(params)
ParseSkip ==
    /\ pc = "skip"
    /\ LET r == parseIntParam(query, skipParam)
       IN  /\ Skip' = r.val
           /\ errs' = IF r.err # "nil" THEN Append(errs, Error(r.err, skipParam, <<>>))
                      ELSE errs
    /\ sortFields' = getSortFields(query)
    /\ pc' = "sort"
    /\ UNCHANGED <<query, parser, fields, pending, cur, Filter, Sort, Limit, err>>
    /\ UNCHANGED <<calls, unitVars, onceVars>>

\* the loop over sortFields that ends at the first token the factory rejects
AddSortFieldUntilError ==
    /\ pc = "sort"
    /\ sortFields # <<>>
    /\ \E r \in {AddSort(Sort, Head(sortFields))} :
          /\ Sort' = r.Sort
          /\ errs' = IF ~r.ok THEN Append(errs, Error(r.err, Head(sortFields), <<>>))
                     ELSE IF parser.ValidateFields /\ ~HasField(parser.Fields, r.fieldName)
                     THEN Append(errs, Error("ErrNoSortField", Head(sortFields), <<>>))
                     ELSE errs
          /\ sortFields' = IF r.ok THEN Tail(sortFields) ELSE <<>>
    /\ UNCHANGED <<query, parser, pc, fields, pending, cur, Filter, Limit, Skip, err>>
    /\ UNCHANGED <<calls, unitVars, onceVars>>

\* Parse: one turn of the loop over sortFields
AddSortField ==
    /\ pc = "sort"
    /\ sortFields # <<>>
    /\ LET r == AddSort(Sort, Head(sortFields))
       IN  /\ Sort' = r.Sort
           /\ errs' = IF ~r.ok THEN Append(errs, Error(r.err, Head(sortFields), <<>>))
                      ELSE IF parser.ValidateFields /\ ~HasField(parser.Fields, r.fieldName)
                      THEN Append(errs, Error("ErrNoSortField", Head(sortFields), <<>>))
                      ELSE errs
    /\ sortFields' = Tail(sortFields)
    /\ UNCHANGED <<query, parser, pc, fields, pending, cur, Filter, Limit, Skip, err>>
    /\ UNCHANGED <<calls, unitVars, onceVars>>

\* Parse: the accumulated errors are wrapped and returned
Return ==
    /\ pc = "sort"
    /\ sortFields = <<>>
    /\ err' = IF errs # <<>> THEN "parse" ELSE "nil"
    /\ pc' = "done"
    /\ UNCHANGED <<query, parser, fields, pending, cur, Filter, Sort, Limit, Skip,
                   sortFields, errs>>
    /\ UNCHANGED <<calls, unitVars, onceVars>>

Next ==
    \/ ExtractFields
    \/ \E fo \in pending : ConvertField(fo[1], fo[2])
    \/ CheckRequired
    \/ ParseLimit
    \/ ParseSkip
    \/ AddSortField
    \/ Return

Spec == Init /\ [][Next]_vars

(***************************************************************************)
(* What a returned Parse is held to                                        *)
(***************************************************************************)

\* Parse has returned
Returned == pc = "done"

\* the raw keys of the query that are filter parameters
FilterKeys == {k \in DOMAIN query : ~HasPrefix(k, delimiter)}

\* the filter parameters of one field
KeysOf(field) == {k \in FilterKeys : FieldOf(k) = field}

\* the parser converts the parameters of the field: the field is configured
\* or the parser does not validate the fields
Accepted(field) == HasField(parser.Fields, field) \/ ~parser.ValidateFields

HasError(kind, item, op) == \E i \in 1..Len(errs) : errs[i] = Error(kind, item, op)

ErrorsOf(item) == {i \in 1..Len(errs) : errs[i].item = item}

\* the errors the filter parameters of the field have left
FilterErrorsOf(field) == {i \in ErrorsOf(field) : errs[i].kind # "ErrNoSortField"}

\* every text of the sequence is accepted by the converter
AllConvert(c, texts) == \A n \in 1..Len(texts) : Convert(c, texts[n]).ok

\* the texts of the sequence, each converted, in their order
Converted(c, texts) == [n \in 1..Len(texts) |-> Convert(c, texts[n]).val]

\* the texts of the sequence, each made a pattern without options
Patterns(texts) == [n \in 1..Len(texts) |-> RegexValue(texts[n], <<>>)]

\* the nested entry that holds one array under $in
InArray(items) == Nested((mongoOpPrefix \o operatorIn) :> Arr(items))

\* the number of times x occurs in the sequence
Count(seq, x) == Cardinality({i \in 1..Len(seq) : seq[i] = x})

\* the two sequences hold the same elements the same number of times
SameItems(a, b) ==
    /\ Len(a) = Len(b)
    /\ \A i \in 1..Len(a) : Count(a, a[i]) = Count(b, a[i])

\* C1: a lone field__in parameter whose single value holds two or more
\* comma-separated items gives {$in: [the items in their order, each
\* converted]}; supplied with two or more raw values it gives {$in: [the raw
\* values, each converted]} and splits none of them.
C1_InSplitsLoneValue ==
    Returned =>
        \A k \in FilterKeys :
            LET field == FieldOf(k)
                c     == ChooseConverter(parser, field, operatorIn)
                items == IF Len(query[k]) = 1
                         THEN Split(query[k][1], arrayDelimiter)
                         ELSE query[k]
            IN  (/\ OperatorOf(k) = operatorIn
                 /\ KeysOf(field) = {k}
                 /\ Len(items) >= 2
                 /\ Accepted(field)
                 /\ AllConvert(c, items))
                => /\ field \in DOMAIN Filter
                   /\ Filter[field] = InArray(Converted(c, items))

\* f__in=a,1 alone for f has given {f: {$in: ["a", 1]}}
C1_Witness ==
    /\ Returned
    /\ KeysOf(<<"f">>) = {<<"f", "_", "_", "i", "n">>}
    /\ query[<<"f", "_", "_", "i", "n">>] = <<<<"a", ",", "1">>>>
    /\ <<"f">> \in DOMAIN Filter
    /\ Filter[<<"f">>] = InArray(<<StringValue(<<"a">>), IntValue(<<"1">>)>>)

\* C2: a lone field__in parameter with a single comma-free value gives the
\* entry field=v gives, the bare converted value, never a one-element array.
C2_InOfOneIsEquality ==
    Returned =>
        \A k \in FilterKeys :
            LET field == FieldOf(k)
                c     == ChooseConverter(parser, field, operatorEquals)
            IN  (/\ OperatorOf(k) = operatorIn
                 /\ KeysOf(field) = {k}
                 /\ Len(query[k]) = 1
                 /\ ~Contains(query[k][1], arrayDelimiter)
                 /\ Accepted(field)
                 /\ Convert(c, query[k][1]).ok)
                => /\ field \in DOMAIN Filter
                   /\ Filter[field] = Bare(One(Convert(c, query[k][1]).val))
                   /\ Filter[field] =
                          addField(EmptyMap, field, operatorEquals,
                                   One(Convert(c, query[k][1]).val))[field]

\* f__in=b alone for f has given {f: "b"}
C2_Witness ==
    /\ Returned
    /\ KeysOf(<<"f">>) = {<<"f", "_", "_", "i", "n">>}
    /\ query[<<"f", "_", "_", "i", "n">>] = <<<<"b">>>>
    /\ <<"f">> \in DOMAIN Filter
    /\ Filter[<<"f">>] = Bare(One(StringValue(<<"b">>)))

\* C3: the values of a lone bracket parameter (field[], field__re[]) are
\* never comma-split: two or more occurrences give {$in: [the raw values in
\* their order]}, one occurrence gives the whole raw value, which for field[]
\* is the bare converted literal.
C3_BracketsNeverSplit ==
    Returned =>
        \A k \in FilterKeys :
            LET field == FieldOf(k)
                c     == ChooseConverter(parser, field, operatorEquals)
            IN  (/\ OperatorOf(k) \in {operatorInArray, operatorRegexInArray}
                 /\ KeysOf(field) = {k}
                 /\ Accepted(field)
                 /\ OperatorOf(k) = operatorInArray => AllConvert(c, query[k]))
                => /\ field \in DOMAIN Filter
                   /\ Filter[field] =
                        IF OperatorOf(k) = operatorInArray
                        THEN IF Len(query[k]) >= 2
                             THEN InArray(Converted(c, query[k]))
                             ELSE Bare(One(Convert(c, query[k][1]).val))
                        ELSE IF Len(query[k]) >= 2
                             THEN InArray(Patterns(query[k]))
                             ELSE Nested((mongoOpPrefix \o operatorEquals) :>
                                            One(RegexValue(query[k][1], <<>>)))

\* f[]=a,b alone for f has given {f: "a,b"}
C3_Witness ==
    /\ Returned
    /\ KeysOf(<<"f">>) = {<<"f", "[", "]">>}
    /\ query[<<"f", "[", "]">>] = <<<<"a", ",", "b">>>>
    /\ <<"f">> \in DOMAIN Filter
    /\ Filter[<<"f">>] = Bare(One(StringValue(<<"a", ",", "b">>)))

\* the values a word-suffix parameter contributes: a lone value is split
WordItems(k) ==
    IF Len(query[k]) = 1 THEN Split(query[k][1], arrayDelimiter) ELSE query[k]

\* C4: when a field has exactly the word-suffix spelling and the bracket
\* spelling of one operator (field__in with field[], field__rein with
\* field__re[]), its entry is one $in array and nothing else, holding the
\* items of the word-suffix parameter and the raw values of the bracket
\* parameter, the latter unsplit, in some order; the patterns carry no option.
C4_SpellingsMerge ==
    Returned =>
        \A w \in FilterKeys, b \in FilterKeys :
            LET field == FieldOf(w)
                c     == ChooseConverter(parser, field, operatorEquals)
                texts == WordItems(w) \o query[b]
            IN  (/\ FieldOf(b) = field
                 /\ KeysOf(field) = {w, b}
                 /\ <<OperatorOf(w), OperatorOf(b)>> \in
                        {<<operatorIn, operatorInArray>>,
                         <<operatorRegexIn, operatorRegexInArray>>}
                 /\ Accepted(field)
                 /\ OperatorOf(w) = operatorIn => AllConvert(c, texts))
                => /\ field \in DOMAIN Filter
                   /\ Filter[field].isMap
                   /\ DOMAIN Filter[field].mm = {mongoOpPrefix \o operatorIn}
                   /\ Filter[field].mm[mongoOpPrefix \o operatorIn].arr
                   /\ SameItems(Filter[field].mm[mongoOpPrefix \o operatorIn].items,
                                IF OperatorOf(w) = operatorIn
                                THEN Converted(c, texts)
                                ELSE Patterns(texts))

\* f__rein=a with f__re[]=a,b has given f one $in array of the two patterns
\* a and a,b
C4_Witness ==
    /\ Returned
    /\ KeysOf(<<"f">>) = {<<"f", "_", "_", "r", "e", "i", "n">>,
                          <<"f", "_", "_", "r", "e", "[", "]">>}
    /\ query[<<"f", "_", "_", "r", "e", "i", "n">>] = <<<<"a">>>>
    /\ query[<<"f", "_", "_", "r", "e", "[", "]">>] = <<<<"a", ",", "b">>>>
    /\ <<"f">> \in DOMAIN Filter
    /\ Filter[<<"f">>].isMap
    /\ DOMAIN Filter[<<"f">>].mm = {<<"$", "i", "n">>}
    /\ SameItems(Filter[<<"f">>].mm[<<"$", "i", "n">>].items,
                 <<RegexValue(<<"a">>, <<>>), RegexValue(<<"a", ",", "b">>, <<>>)>>)

\* C5: the operand of field__exists is converted by the boolean converter
\* whatever converter the field is configured with: true, yes, false and no
\* give $exists the boolean, any other operand gives a no-match error and
\* no $exists.
C5_ExistsIsBoolean ==
    Returned =>
        \A k \in FilterKeys :
            LET field == FieldOf(k)
                sym   == mongoOpPrefix \o operatorExists
            IN  (/\ OperatorOf(k) = operatorExists
                 /\ Len(query[k]) = 1
                 /\ Accepted(field))
                => IF Bool(query[k][1]).ok
                   THEN /\ field \in DOMAIN Filter
                        /\ Filter[field].isMap
                        /\ sym \in DOMAIN Filter[field].mm
                        /\ Filter[field].mm[sym] = One(Bool(query[k][1]).val)
                   ELSE /\ HasError("ErrNoMatch", field, operatorExists)
                        /\ ~(/\ field \in DOMAIN Filter
                             /\ Filter[field].isMap
                             /\ sym \in DOMAIN Filter[field].mm)

\* C6: IsValid holds of the suffix of a parameter exactly when the suffix is
\* a token of the vocabulary, and a parameter with any other suffix gives an
\* unknown-operator error and, being the only parameter of its field, no
\* entry.
C6_OnlyVocabularyIsValid ==
    Returned =>
        \A k \in FilterKeys :
            /\ IsValid(OperatorOf(k)) <=> OperatorOf(k) \in Vocabulary
            /\ OperatorOf(k) \notin Vocabulary
               => /\ HasError("ErrUnknownOperator", FieldOf(k), OperatorOf(k))
                  /\ KeysOf(FieldOf(k)) = {k} => FieldOf(k) \notin DOMAIN Filter

\* the text is a decimal non-negative integer of the 31-bit range
IsSmallNatural(str) ==
    /\ str # <<>>
    /\ AllDigits(str)
    /\ DigitsGreater(CutoffDigits(31), StripZeros(str))

\* the directive of the name holds val in the Query, as C7 has it
DirectiveAsClaimed(name, val) ==
    LET str == Get(query, delimiter \o name)
    IN  IF str = <<>> THEN val = 0 /\ ErrorsOf(name) = {}
        ELSE IF IsSmallNatural(str)
        THEN val = DigitsToNat(StripZeros(str)) /\ ErrorsOf(name) = {}
        ELSE val = 0 /\ ErrorsOf(name) # {}

\* C7: __limit and __skip: a decimal non-negative integer of the 31-bit range
\* is the Query's Limit or Skip, without an error; an absent or empty
\* directive gives 0 without an error; any other value gives an error and 0.
C7_LimitAndSkip ==
    Returned => DirectiveAsClaimed(limitParam, Limit) /\ DirectiveAsClaimed(skipParam, Skip)

\* the errors of the sort tokens
SortErrors == {i \in 1..Len(errs) : errs[i].kind = "ErrNoSortField"}

\* C8: Parse goes through every item: each filter parameter has left an
\* error of its field or an entry of its field, each directive an error or
\* its value, each sort token an error or a sort entry.
C8_EveryItemIsProcessed ==
    Returned =>
        /\ \A k \in FilterKeys : FilterErrorsOf(FieldOf(k)) # {} \/ FieldOf(k) \in DOMAIN Filter
        /\ ErrorsOf(limitParam) = {}
           => Limit = parseIntParam(query, limitParam).val
        /\ ErrorsOf(skipParam) = {}
           => Skip = parseIntParam(query, skipParam).val
        /\ Len(getSortFields(query)) <= Len(Sort) + Cardinality(SortErrors)

\* the required fields of the parser
RequiredFields == {f \in DOMAIN parser.Fields : parser.Fields[f].Required}

\* C9: a missing-field error is reported for a required field exactly when
\* the Filter has no entry for it; without a parameter the field has the
\* error; a required field whose lone plain value its converter rejects has a
\* no-match error and no entry.
C9_RequiredFields ==
    Returned =>
        \A f \in RequiredFields :
            /\ HasError("ErrMissingField", f, <<>>) <=> f \notin DOMAIN Filter
            /\ KeysOf(f) = {} => HasError("ErrMissingField", f, <<>>)
            /\ (/\ KeysOf(f) = {f}
                /\ Len(query[f]) = 1
                /\ ~Convert(parser.Fields[f].Converter, query[f][1]).ok)
               => /\ HasError("ErrNoMatch", f, operatorEquals)
                  /\ f \notin DOMAIN Filter

\* C10: a parser that validates the fields gives every filter parameter of
\* an unconfigured field, under any operator of the vocabulary, a
\* no-field-specification error and no entry; a parser that does not never
\* reports that error.
C10_ValidateFields ==
    Returned =>
        /\ parser.ValidateFields
           => \A k \in FilterKeys :
                 (~HasField(parser.Fields, FieldOf(k)) /\ OperatorOf(k) \in Vocabulary)
                 => /\ \E i \in FilterErrorsOf(FieldOf(k)) : errs[i].kind = "ErrNoFieldSpec"
                    /\ FieldOf(k) \notin DOMAIN Filter
        /\ ~parser.ValidateFields
           => \A i \in 1..Len(errs) : errs[i].kind # "ErrNoFieldSpec"

\* the tokens of the values of a directive, value after value
RECURSIVE TokensOf(_)
TokensOf(values) ==
    IF values = <<>> THEN <<>>
    ELSE Split(Head(values), arrayDelimiter) \o TokensOf(Tail(values))

\* the tokens of the __sort occurrences of the query in encounter order
SortTokens ==
    IF (delimiter \o sortParam) \in DOMAIN query
    THEN TokensOf(query[delimiter \o sortParam])
    ELSE <<>>

\* the field name of a sort token: its marker stripped
SortName(token) ==
    IF token # <<>> /\ Head(token) \in {"+", "-"} THEN Tail(token) ELSE token

\* the sort entry of a token: its field name and its direction
SortEntry(token) ==
    [K |-> SortName(token),
     V |-> IF token # <<>> /\ Head(token) = "-" THEN -1 ELSE 1]

\* the sort entries of the tokens the element factory accepts, in their order
RECURSIVE EntriesOfAccepted(_)
EntriesOfAccepted(tokens) ==
    IF tokens = <<>> THEN <<>>
    ELSE (IF SortName(Head(tokens)) \in forbidSortFields
          THEN <<>>
          ELSE <<SortEntry(Head(tokens))>>) \o EntriesOfAccepted(Tail(tokens))

ParseIdle ==
    /\ query = EmptyMap
    /\ parser = [Fields |-> NoFields, ValidateFields |-> FALSE]
    /\ pc = "idle"
    /\ fields = EmptyMap
    /\ pending = {}
    /\ cur = <<>>
    /\ Sort = <<>>
    /\ Limit = 0
    /\ Skip = 0
    /\ sortFields = <<>>
    /\ errs = <<>>
    /\ err = "nil"

\* the texts handed to the converters
UnitTexts ==
    {<<>>,
     <<"t", "r", "u", "e">>,
     <<"N", "o">>,
     <<"Y", "E", "S">>,
     <<"a", "b", "c">>,
     <<"4", "2">>,
     <<"-", "7", "8", "9">>,
     <<"-", "5", "5", "5", ".", "8", "8", "8">>,
     <<"1", "e", "3">>,
     <<"2", "0", "2", "0", "-", "1", "2", "-", "0", "8">>,
     <<"2", "0", "2", "0", "-", "1", "2", "-", "0", "8", "T", "1", "2", ":", "5", "0", ":", "3", "7", "Z">>,
     <<"2", "0", "2", "0", "-", "1", "2", "-", "0", "8", "T", "1">>,
     <<"0", "1", "2", "3", "4", "5", "6", "7", "8", "9", "a", "b">>,
     <<"1", "2", "3", "4", "5", "6", "7", "8", "9", "0", "1", "2">>,
     <<"1", "2", "3", "4", "5", "6", "7", "8", "9", "0", "1", "2", "3">>,
     <<"0", "1", "2", "3", "4", "5", "6", "7", "8", "9", "a", "b", "c">>,
     <<"0", "1", "2", "3", "4", "5", "6", "7", "8", "9", "a">>,
     <<"0", "1", "2", "3", "4", "5", "6", "7", "8", "9", "a", "g">>,
     <<"9", "9", "9", "9", "9", "9", "9", "9", "9", "9", "9", "9", "9", "9", "9", "9", "9", "9", "9", "9">>}

\* NewDefaultConverter(p), and the same with the string to string converter
\* removed: converter.Funcs[:len(converter.Funcs)-1]
UnitChains ==
    {[Bool |-> "Bool", Funcs |-> DefaultFuncs],
     [Bool |-> "Bool", Funcs |-> SubSeq(DefaultFuncs, 1, Len(DefaultFuncs) - 1)]}

TypeConverterCalls ==
    {[fn |-> "TypeConverter.Convert", c |-> c, val |-> val] : c \in UnitChains, val \in UnitTexts}

ObjectIDCalls ==
    {[fn |-> "ObjectID", val |-> val] : val \in UnitTexts}

\* the calls of the single-call specification
\* the most keys a query handed to extractFields holds
MaxPathKeys == 3

\* the raw keys of the queries handed to extractFields, each with its values:
\* the spellings of the nested path a.b.c, and a key of the path a.b
PathMenu ==
    <<"a", "[", "b", "]", "[", "c", "]">> :> {<<<<"x">>>>} @@
    <<"a", "[", "b", "[", "c", "]", "]">> :> {<<<<"y">>>>} @@
    <<"a", ".", "b", ".", "c">> :> {<<<<"z">>>>} @@
    <<"a", "[", "b", "]", "[", "c", "]", "_", "_", "n", "e">> :> {<<<<"u">>>>} @@
    <<"a", ".", "b", ".", "c", "_", "_", "i", "n">> :> {<<<<"v">>, <<"w">>>>} @@
    <<"a", "[", "b", "]", "[", "c", "]", "[", "]">> :> {<<<<"p">>, <<"q">>>>} @@
    <<"a", "[", "b", "[", "c", "]", "]", "[", "]">> :> {<<<<"d">>>>} @@
    <<"a", ".", "b", ".", "c", "[", "]">> :> {<<<<"c">>>>} @@
    <<"a", "[", "b", "[", "c", "]", "]", "_", "_", "r", "e", "[", "]">> :> {<<<<"r">>>>} @@
    <<"a", "[", "b", "]">> :> {<<<<"n">>>>}

RECURSIVE PathQueriesOver(_)
PathQueriesOver(keys) ==
    IF keys = {} THEN {EmptyMap}
    ELSE LET k == CHOOSE k \in keys : TRUE
         IN  {Put(q, k, vs) : q \in PathQueriesOver(keys \ {k}), vs \in PathMenu[k]}

ExtractFieldsCalls ==
    {[fn |-> "extractFields", query |-> q] :
        q \in UNION {PathQueriesOver(keys) :
                        keys \in {D \in SUBSET DOMAIN PathMenu : Cardinality(D) <= MaxPathKeys}}}

\* the value lists handed to Parser.convert
ConvertValues ==
    {<<>>,
     <<<<"a", ".", "b">>>>,
     <<<<"^">>>>,
     <<<<"$", ",", "x">>>>,
     <<<<"5">>>>,
     <<<<"x">>>>,
     <<<<"y", "e", "s">>>>,
     <<<<"5">>, <<"7">>>>,
     <<<<"5">>, <<"x">>>>,
     <<<<"[", "0", "-", "9", "]", "*">>, <<"[", "a", "-", "f", "]", "*">>>>}

\* the operators parseFilter hands to Parser.convert: the keys under which
\* normailzeFields files the values, that is the canonical forms of the
\* vocabulary, and an unknown one
ConvertOperators == {CommonOperator(o) : o \in Vocabulary} \cup {<<"z", "z">>}

\* p.convert(field, op, v) for an unconfigured field and for a configured one
ConvertCalls ==
    {[fn |-> "convert", p |-> p, field |-> field, op |-> op, v |-> v] :
        p \in Parsers, field \in {<<"f">>, <<"h">>}, op \in ConvertOperators,
        v \in ConvertValues}

\* the methods of one operator, called on every token of the vocabulary
OperatorMethods ==
    {"MongoOperator", "CommonOperator", "SingleValueOperator",
     "IsIgnoreCaseOperator", "RegexOpts"}

OperatorCalls ==
    {[fn |-> m, o |-> o] : m \in OperatorMethods, o \in Vocabulary}

\* o.Is(op) on every pair of tokens
IsCalls ==
    {[fn |-> "Is", o |-> o, op |-> op] : o \in Vocabulary, op \in Vocabulary}

MaxOps == 2

\* the value lists one operator of a field is given before normailzeFields:
\* a single-value operator one value; a multi-value operator that needs the
\* split one value or one comma-separated text; a bracket operator one value
\* or two
OperatorValues(o) ==
    IF ~IsMultiVal(o) THEN {<<<<"a">>>>}
    ELSE IF NeedSplitString(o) THEN {<<<<"b">>>>, <<<<"b", ",", "c">>>>}
    ELSE {<<<<"d">>>>, <<<<"d">>, <<"e">>>>}

\* the maps of n operators of the vocabulary to value lists
RECURSIVE OperatorGroups(_)
OperatorGroups(n) ==
    IF n = 0 THEN {EmptyMap}
    ELSE UNION {{Put(g, o, vs) : g \in OperatorGroups(n - 1), vs \in OperatorValues(o)} :
                   o \in Vocabulary}

\* normailzeFields(fields) for one field f with up to MaxOps operators of the
\* vocabulary
NormalizeCalls ==
    {[fn |-> "normailzeFields", fields |-> Put(EmptyMap, <<"f">>, g)] :
        g \in OperatorGroups(MaxOps) \ {EmptyMap}}

UnitCalls ==
    TypeConverterCalls \cup ObjectIDCalls \cup ExtractFieldsCalls \cup ConvertCalls
        \cup OperatorCalls \cup IsCalls \cup NormalizeCalls

UnitInit ==
    /\ call \in UnitCalls
    /\ ret = NoCall
    /\ ParseIdle
    /\ Filter = EmptyMap
    /\ calls = <<>>
    /\ OnceIdle

\* c.Convert(val)
CallTypeConverter ==
    /\ call.fn = "TypeConverter.Convert"
    /\ ret.fn = "none"
    /\ ret' = [fn |-> call.fn, r |-> TypeConverterConvert(call.c, call.val)]
    /\ UNCHANGED <<call, parseVars, Filter, calls, onceVars>>

\* ObjectID(p)(val)
CallObjectID ==
    /\ call.fn = "ObjectID"
    /\ ret.fn = "none"
    /\ ret' = [fn |-> call.fn, r |-> ObjectID(call.val)]
    /\ UNCHANGED <<call, parseVars, Filter, calls, onceVars>>

\* extractFields(query)
CallExtractFields ==
    /\ call.fn = "extractFields"
    /\ ret.fn = "none"
    /\ \E fs \in extractFields(call.query) : ret' = [fn |-> call.fn, r |-> fs]
    /\ UNCHANGED <<call, parseVars, Filter, calls, onceVars>>

\* p.convert(field, op, v)
CallConvert ==
    /\ call.fn = "convert"
    /\ ret.fn = "none"
    /\ ret' = [fn |-> call.fn, r |-> convert(call.p, call.field, call.op, call.v)]
    /\ UNCHANGED <<call, parseVars, Filter, calls, onceVars>>

\* parseFilter, the body of its inner loop after p.convert: the error is
\* appended to errs, or the value is added to the Filter
AddConverted ==
    /\ ret.fn = "convert"
    /\ ret' = [fn |-> "parseFilter", r |-> ret.r]
    /\ IF ret.r.ok
       THEN /\ Filter' = addField(Filter, call.field, call.op, ret.r.val)
            /\ errs' = errs
       ELSE /\ Filter' = Filter
            /\ errs' = Append(errs, Error(ret.r.err, call.field, call.op))
    /\ UNCHANGED <<query, parser, pc, fields, pending, cur, Sort, Limit, Skip, sortFields, err>>
    /\ UNCHANGED <<call, calls, onceVars>>

\* normailzeFields(fields)
CallNormalizeFields ==
    /\ call.fn = "normailzeFields"
    /\ ret.fn = "none"
    /\ \E fs \in normailzeFields(call.fields) : ret' = [fn |-> call.fn, r |-> fs]
    /\ UNCHANGED <<call, parseVars, Filter, calls, onceVars>>

\* o.MongoOperator()
CallMongoOperator ==
    /\ call.fn = "MongoOperator"
    /\ ret.fn = "none"
    /\ ret' = [fn |-> call.fn, r |-> MongoOperator(call.o)]
    /\ UNCHANGED <<call, parseVars, Filter, calls, onceVars>>

\* o.CommonOperator()
CallCommonOperator ==
    /\ call.fn = "CommonOperator"
    /\ ret.fn = "none"
    /\ ret' = [fn |-> call.fn, r |-> CommonOperator(call.o)]
    /\ UNCHANGED <<call, parseVars, Filter, calls, onceVars>>

\* o.SingleValueOperator()
CallSingleValueOperator ==
    /\ call.fn = "SingleValueOperator"
    /\ ret.fn = "none"
    /\ ret' = [fn |-> call.fn, r |-> SingleValueOperator(call.o)]
    /\ UNCHANGED <<call, parseVars, Filter, calls, onceVars>>

\* o.IsIgnoreCaseOperator()
CallIsIgnoreCaseOperator ==
    /\ call.fn = "IsIgnoreCaseOperator"
    /\ ret.fn = "none"
    /\ ret' = [fn |-> call.fn, r |-> IsIgnoreCaseOperator(call.o)]
    /\ UNCHANGED <<call, parseVars, Filter, calls, onceVars>>

\* o.RegexOpts()
CallRegexOpts ==
    /\ call.fn = "RegexOpts"
    /\ ret.fn = "none"
    /\ ret' = [fn |-> call.fn, r |-> RegexOpts(call.o)]
    /\ UNCHANGED <<call, parseVars, Filter, calls, onceVars>>

\* o.Is(op)
CallIs ==
    /\ call.fn = "Is"
    /\ ret.fn = "none"
    /\ ret' = [fn |-> call.fn, r |-> Is(call.o, call.op)]
    /\ UNCHANGED <<call, parseVars, Filter, calls, onceVars>>

UnitNext ==
    \/ CallTypeConverter
    \/ CallObjectID
    \/ CallExtractFields
    \/ CallConvert
    \/ AddConverted
    \/ CallMongoOperator
    \/ CallCommonOperator
    \/ CallSingleValueOperator
    \/ CallIsIgnoreCaseOperator
    \/ CallRegexOpts
    \/ CallIs
    \/ CallNormalizeFields

UnitSpec == UnitInit /\ [][UnitNext]_vars

\* the order of the default chain
ChainOrder == <<"Bool", "ObjectID", "Int", "Double", "Date", "String">>

\* the places of the converters of a chain that accept val
Accepting(order, val) == {i \in 1..Len(order) : ConvertFunc(order[i], val).ok}

\* the result of the first converter of a chain that accepts val, the
\* no-match error when none does
FirstAccepted(order, val) ==
    IF Accepting(order, val) = {} THEN Fail("ErrNoMatch")
    ELSE ConvertFunc(order[CHOOSE i \in Accepting(order, val) :
                               \A j \in Accepting(order, val) : i <= j], val)

\* C13: the default chain returns the result of the first converter that
\* accepts the text in the order boolean, object identifier, int64, float64,
\* date/time, string; the chain without the string converter returns the
\* no-match error, not the string, when none of the other five accepts.
C13_FirstConverterWins ==
    ret.fn = "TypeConverter.Convert" =>
        IF call.c.Funcs = DefaultFuncs
        THEN ret.r = FirstAccepted(ChainOrder, call.val)
        ELSE ret.r = FirstAccepted(SubSeq(ChainOrder, 1, 5), call.val)
             /\ (Accepting(SubSeq(ChainOrder, 1, 5), call.val) = {}
                 => ret.r = Fail("ErrNoMatch"))

\* twelve digits have gone through the default chain and have come out of
\* the object identifier factory, not as an integer; the text abc has come
\* out of the chain without the string converter as the no-match error
C13_Witness ==
    /\ ret.fn = "TypeConverter.Convert"
    /\ \/ /\ call.c.Funcs = DefaultFuncs
          /\ call.val = <<"1", "2", "3", "4", "5", "6", "7", "8", "9", "0", "1", "2">>
          /\ ret.r = Ok(OidValue(call.val))
       \/ /\ call.c.Funcs # DefaultFuncs
          /\ call.val = <<"a", "b", "c">>
          /\ ret.r = Fail("ErrNoMatch")

\* the texts of exactly ObjectIDWidth hexadecimal characters
IsExactObjectID(val) ==
    Len(val) = ObjectIDWidth /\ \A i \in 1..Len(val) : IsHexDigit(val[i])

\* C14: ObjectID hands the text to the factory only when it is exactly 12
\* hexadecimal characters and fails with no match for every other text, so
\* the default chain converts a longer text of digits with the integer
\* converter.
C14_ExactWidthOnly ==
    /\ ret.fn = "ObjectID" =>
          ret.r = IF IsExactObjectID(call.val) THEN PrimitiveObjectID(call.val)
                  ELSE Fail("ErrNoMatch")
    /\ (/\ ret.fn = "TypeConverter.Convert"
        /\ call.c.Funcs = DefaultFuncs
        /\ AllDigits(call.val)
        /\ Len(call.val) = ObjectIDWidth + 1)
       => ret.r = IntFunc(call.val)

\* the spellings of the nested path a.b.c among the raw keys
PathKeys ==
    {<<"a", "[", "b", "]", "[", "c", "]">>,
     <<"a", "[", "b", "[", "c", "]", "]">>,
     <<"a", ".", "b", ".", "c">>,
     <<"a", "[", "b", "]", "[", "c", "]", "_", "_", "n", "e">>,
     <<"a", ".", "b", ".", "c", "_", "_", "i", "n">>,
     <<"a", "[", "b", "]", "[", "c", "]", "[", "]">>,
     <<"a", "[", "b", "[", "c", "]", "]", "[", "]">>,
     <<"a", ".", "b", ".", "c", "[", "]">>,
     <<"a", "[", "b", "[", "c", "]", "]", "_", "_", "r", "e", "[", "]">>}

\* the number of times the value v is held by the raw keys of the set
SuppliedTimes(q, keys, v) ==
    Cardinality({p \in UNION {{<<k, i>> : i \in 1..Len(q[k])} : k \in keys} :
                    q[p[1]][p[2]] = v})

\* the number of times the value v is held by the operator groups
GroupedTimes(ops, v) ==
    Cardinality({p \in UNION {{<<op, i>> : i \in 1..Len(ops[op])} : op \in DOMAIN ops} :
                    ops[p[1]][p[2]] = v})

\* the values the raw keys of the set hold
SuppliedValues(q, keys) == UNION {{q[k][i] : i \in 1..Len(q[k])} : k \in keys}

\* the values the operator groups hold
GroupedValues(ops) == UNION {{ops[op][i] : i \in 1..Len(ops[op])} : op \in DOMAIN ops}

\* C15: the keys that spell the path a.b.c with brackets or dots, with or
\* without an operator suffix or a trailing [], are all filed under the one
\* field a.b.c, and the operator groups of that field hold the values of all
\* these keys, each as often as it was supplied.
C15_PathSpellingsMerge ==
    ret.fn = "extractFields" =>
        LET q    == call.query
            path == DOMAIN q \cap PathKeys
            abc  == <<"a", ".", "b", ".", "c">>
        IN  /\ \A f \in DOMAIN ret.r : f = abc \/ (f = <<"a", ".", "b">> /\ path # DOMAIN q)
            /\ path # {} =>
                 /\ abc \in DOMAIN ret.r
                 /\ GroupedValues(ret.r[abc]) = SuppliedValues(q, path)
                 /\ \A v \in SuppliedValues(q, path) :
                       GroupedTimes(ret.r[abc], v) = SuppliedTimes(q, path, v)

\* the operators of the three families that build patterns
RegexFamily      == {operatorRegex, operatorRegexIgnoreCase, operatorRegexIn,
                     operatorRegexInIgnoreCase, operatorRegexInArray,
                     operatorRegexInArrayIgnoreCase}
ContainsFamily   == {operatorContains, operatorContainsIgnoreCase, operatorContainsIn,
                     operatorContainsInIgnoreCase, operatorContainsInArray,
                     operatorContainsInArrayIgnoreCase}
StartsWithFamily == {operatorStartsWith, operatorStartsWithIgnoreCase, operatorStartsWithIn,
                     operatorStartsWithInIgnoreCase, operatorStartsWithInArray,
                     operatorStartsWithInArrayIgnoreCase}

\* the operators of the three families that carry the i prefix
IgnoreCaseFamily ==
    {op \in RegexFamily \cup ContainsFamily \cup StartsWithFamily : Head(op) = "i"}

\* the single-value operators of the vocabulary
SingleValueFamily ==
    {operatorEquals, operatorNotEquals, operatorGreaterThan, operatorGreaterThanOrEquals,
     operatorLessThan, operatorLessThanOrEquals, operatorExists,
     operatorRegex, operatorRegexIgnoreCase, operatorContains, operatorContainsIgnoreCase,
     operatorStartsWith, operatorStartsWithIgnoreCase}

\* the characters that are escaped
MetaCharacters == {".", "*", "?", "+", "^", "$", "[", "]", "(", ")", "{", "}", "|", "-"}

\* the text with a backslash before each of its metacharacters
RECURSIVE EscapedText(_)
EscapedText(t) ==
    IF t = <<>> THEN <<>>
    ELSE (IF Head(t) \in MetaCharacters THEN <<"\\", Head(t)>> ELSE <<Head(t)>>)
         \o EscapedText(Tail(t))

\* the pattern an operator of the three families makes of a text
PatternOf(op, t) ==
    RegexValue(IF op \in RegexFamily THEN t
               ELSE IF op \in ContainsFamily THEN EscapedText(t)
               ELSE <<"^">> \o EscapedText(t),
               IF op \in IgnoreCaseFamily THEN <<"i">> ELSE <<>>)

\* the parser of the call converts the values of the field of the call
CallAccepted == HasField(call.p.Fields, call.field) \/ ~call.p.ValidateFields

\* C16: for an operator of the regex, contains or starts-with family the
\* converter of the field is not used: every operand becomes a pattern of the
\* regex factory, the raw text for regex, the escaped text for contains, ^ and
\* the escaped text for starts-with, with the option i exactly for the
\* operators that carry the i prefix.
C16_PatternsBypassConverter ==
    (/\ ret.fn = "convert"
     /\ call.op \in RegexFamily \cup ContainsFamily \cup StartsWithFamily
     /\ CallAccepted
     /\ call.op \in SingleValueFamily => Len(call.v) <= 1)
    => /\ ret.r.ok
       /\ ret.r.val.items = [n \in 1..Len(call.v) |-> PatternOf(call.op, call.v[n])]

\* the values ^ of the field h, configured with Int(), have become the
\* pattern ^\^ with the option i under isw, and the value $,x the escaped
\* pattern in an array under icoin
C16_Witness ==
    /\ ret.fn = "convert"
    /\ call.field = <<"h">>
    /\ HasField(call.p.Fields, call.field)
    /\ \/ /\ call.op = operatorStartsWithIgnoreCase
          /\ call.v = <<<<"^">>>>
          /\ ret.r = [ok |-> TRUE, err |-> "nil",
                      val |-> One(RegexValue(<<"^", "\\", "^">>, <<"i">>))]
       \/ /\ call.op = operatorContainsInIgnoreCase
          /\ call.v = <<<<"$", ",", "x">>>>
          /\ ret.r = [ok |-> TRUE, err |-> "nil",
                      val |-> Arr(<<RegexValue(<<"\\", "$", ",", "x">>, <<"i">>)>>)]

\* the multi-value operators among the operators handed to Parser.convert
MultiValueFamily == (ConvertOperators \cap Vocabulary) \ SingleValueFamily

\* what the operator of the call makes of one value of the call
ElementOf(n) == Convert(ChooseConverter(call.p, call.field, call.op), call.v[n])

MaxCalls == 3

\* the values handed to AddFilter: two scalars and an array
FilterValues ==
    {One(StringValue(<<"a">>)), One(StringValue(<<"b">>)),
     Arr(<<StringValue(<<"a">>), StringValue(<<"b">>)>>)}

\* the operators handed to AddFilter
FilterOperators ==
    {operatorEquals, operatorGreaterThan, operatorIn, operatorInArray,
     operatorEqualArray, operatorRegex}

\* the calls of AddFilter: the field f with every operator and value, and a
\* second field
FilterCalls ==
    {[field |-> <<"f">>, op |-> op, val |-> val] : op \in FilterOperators, val \in FilterValues}
    \cup {[field |-> <<"g">>, op |-> op, val |-> One(StringValue(<<"a">>))] :
             op \in {operatorEquals, operatorGreaterThan}}

FilterInit ==
    /\ Filter = EmptyMap
    /\ calls = <<>>
    /\ ParseIdle
    /\ UnitIdle
    /\ OnceIdle

\* Query.AddFilter(field, op, value)
AddFilter(field, op, value) ==
    /\ Len(calls) < MaxCalls
    /\ Filter' = addField(Filter, field, op, value)
    /\ calls' = Append(calls, [field |-> field, op |-> op, val |-> value])
    /\ UNCHANGED <<parseVars, unitVars, onceVars>>

FilterNext == \E c \in FilterCalls : AddFilter(c.field, c.op, c.val)

FilterSpec == FilterInit /\ [][FilterNext]_vars

\* the places of the history where the field was given
CallsOf(field) == {i \in 1..Len(calls) : calls[i].field = field}

\* the equality symbol of the database
EqSymbol == <<"$", "e", "q">>

\* the stored value x holds the earlier value f: it is f, or an array with
\* every item of f
Holds(x, f) ==
    \/ x = f
    \/ x.arr /\ \A i \in 1..Len(f.items) : \E j \in 1..Len(x.items) : x.items[j] = f.items[i]

\* C19, of every state: the entry of a field is bare exactly when every call
\* for the field used eq, and is then the value of the last call; otherwise it
\* is a nested map whose keys are symbols of the operators given
BareUntilOtherOperator ==
    \A field \in {c.field : c \in FilterCalls} :
        IF CallsOf(field) = {} THEN field \notin DOMAIN Filter
        ELSE /\ field \in DOMAIN Filter
             /\ IF \A i \in CallsOf(field) : calls[i].op = operatorEquals
                THEN /\ ~Filter[field].isMap
                     /\ Filter[field].val =
                            calls[CHOOSE i \in CallsOf(field) : \A j \in CallsOf(field) : j <= i].val
                ELSE /\ Filter[field].isMap
                     /\ DOMAIN Filter[field].mm \subseteq
                            {MongoOperator(calls[i].op) : i \in CallsOf(field)}

\* C19, of every call: the bare value of the field is kept under $eq when
\* another operator comes, an eq value given to a nested entry is stored
\* under $eq, and the entries of the other fields stay as they are
PromotionKeepsValue ==
    calls' # calls =>
        LET c == calls'[Len(calls')]
        IN  /\ \A g \in DOMAIN Filter \ {c.field} :
                  g \in DOMAIN Filter' /\ Filter'[g] = Filter[g]
            /\ DOMAIN Filter' = DOMAIN Filter \cup {c.field}
            /\ (c.field \in DOMAIN Filter /\ ~Filter[c.field].isMap /\ c.op # operatorEquals)
               => /\ Filter'[c.field].isMap
                  /\ EqSymbol \in DOMAIN Filter'[c.field].mm
                  /\ Holds(Filter'[c.field].mm[EqSymbol], Filter[c.field].val)
            /\ (c.field \in DOMAIN Filter /\ Filter[c.field].isMap /\ c.op = operatorEquals)
               => /\ Filter'[c.field].isMap
                  /\ Filter'[c.field].mm[EqSymbol] = c.val

\* C19: after any sequence of AddFilter calls the entry of a field is bare if
\* and only if every call for it used eq, and is then the last value; once
\* another operator has been added the entry is a nested map in which the
\* bare value of the moment of promotion is kept under $eq and a later eq
\* value is stored under $eq; a call leaves the other fields as they are.
C19_BareUntilPromoted ==
    []BareUntilOtherOperator /\ [][PromotionKeepsValue]_vars

\* the symbol of the database under which a multi-value operator of
\* FilterOperators stores its values
ArraySymbol(op) ==
    IF op = operatorEqualArray THEN EqSymbol ELSE <<"$", "i", "n">>

\* the multi-value operators among FilterOperators
ArrayOperators == {operatorIn, operatorInArray, operatorEqualArray}

\* the items the first n calls gave for the field with operators of the symbol
RECURSIVE ItemsGiven(_, _, _)
ItemsGiven(field, sym, n) ==
    IF n = 0 THEN <<>>
    ELSE ItemsGiven(field, sym, n - 1) \o
         (IF /\ calls[n].field = field
             /\ calls[n].op \in ArrayOperators
             /\ ArraySymbol(calls[n].op) = sym
          THEN calls[n].val.items ELSE <<>>)

\* what the entry of the field stores under the symbol, as a list of items:
\* a scalar is a list of one item, a bare value is stored under $eq
StoredItems(filter, field, sym) ==
    IF field \notin DOMAIN filter THEN <<>>
    ELSE IF filter[field].isMap
    THEN IF sym \in DOMAIN filter[field].mm THEN filter[field].mm[sym].items ELSE <<>>
    ELSE IF sym = EqSymbol THEN filter[field].val.items ELSE <<>>

\* C20, of every state: $in of a field is the flat array of the values of all
\* the in and [] calls for the field in call order
InHoldsAllCalls ==
    \A field \in {c.field : c \in FilterCalls} :
        (\E i \in CallsOf(field) : calls[i].op \in {operatorIn, operatorInArray})
        => /\ Filter[field].isMap
           /\ <<"$", "i", "n">> \in DOMAIN Filter[field].mm
           /\ Filter[field].mm[<<"$", "i", "n">>] =
                  Arr(ItemsGiven(field, <<"$", "i", "n">>, Len(calls)))

\* C20, of every call with a multi-value operator: the entry under its symbol
\* becomes the flat array of what was stored under the symbol followed by the
\* items of the operand
CallAppends ==
    (calls' # calls /\ calls'[Len(calls')].op \in ArrayOperators) =>
        LET c   == calls'[Len(calls')]
            sym == ArraySymbol(c.op)
        IN  /\ Filter'[c.field].isMap
            /\ sym \in DOMAIN Filter'[c.field].mm
            /\ Filter'[c.field].mm[sym] =
                   Arr(StoredItems(Filter, c.field, sym) \o c.val.items)

\* C20: repeated AddFilter calls for one field with multi-value operators of
\* the same symbol concatenate: the entry under the symbol is one flat array
\* of the values of all the calls in call order, a scalar operand or a scalar
\* already stored counting as an array of one item and an array operand being
\* flattened into the result.
C20_CallsConcatenate ==
    []InHoldsAllCalls /\ [][CallAppends]_vars

\* in with the array a,b, then [] with the scalar a, then in with the array
\* a,b have given the flat $in array a,b,a,a,b
C20_Witness ==
    /\ Len(calls) = 3
    /\ \A i \in 1..3 : calls[i].field = <<"f">>
    /\ calls[1].op = operatorIn /\ calls[2].op = operatorInArray /\ calls[3].op = operatorIn
    /\ calls[1].val.arr /\ ~calls[2].val.arr /\ calls[3].val.arr
    /\ Filter[<<"f">>].mm[<<"$", "i", "n">>] =
           Arr(<<StringValue(<<"a">>), StringValue(<<"b">>), calls[2].val.items[1],
                 StringValue(<<"a">>), StringValue(<<"b">>)>>)

(***************************************************************************)
(* Concurrent calls on one Parser.  A goroutine is a Parse call as far as  *)
(* it shares state with the others: the texts it has to escape (todo), the *)
(* escaped texts of its own Query (out) and its place in regEscape (pc).   *)
(* initRegescape is the sync.Once of the Parser: its done flag and its     *)
(* mutex m; rxRegEscape is nil or the replacer; inits counts the runs of   *)
(* the function handed to Do.                                              *)
(***************************************************************************)

\* the most goroutines that call one Parser
MaxGoroutines == 3

\* the texts one Parse call hands to regEscape, one after the other
OnceTexts ==
    {<<<<"a", ".", "b">>>>, <<<<"^">>, <<"x">>>>}

Goroutines ==
    UNION {[1..n -> {[pc |-> "start", todo |-> t, out |-> <<>>] : t \in OnceTexts}] :
              n \in 1..MaxGoroutines}

OnceInit ==
    /\ gor \in Goroutines
    /\ initRegescape = [done |-> 0, m |-> 0]
    /\ rxRegEscape = "nil"
    /\ inits = 0
    /\ ParseIdle
    /\ Filter = EmptyMap
    /\ calls = <<>>
    /\ UnitIdle

\* the goroutine g moves to the place pc
Goto(g, place) == gor' = [gor EXCEPT ![g].pc = place]

\* Once.Do: "if o.done.Load() == 0 { o.doSlow(f) }"
OnceDo(g) ==
    /\ gor[g].pc = "start"
    /\ Goto(g, IF initRegescape.done = 0 THEN "lock" ELSE "replace")
    /\ UNCHANGED <<initRegescape, rxRegEscape, inits>>
    /\ UNCHANGED <<parseVars, Filter, calls, unitVars>>

\* Once.doSlow that does not wait for the mutex
OnceLockUnguarded(g) ==
    /\ gor[g].pc = "lock"
    /\ initRegescape' = [initRegescape EXCEPT !.m = 1]
    /\ Goto(g, "slow")
    /\ UNCHANGED <<rxRegEscape, inits>>
    /\ UNCHANGED <<parseVars, Filter, calls, unitVars>>

\* Once.doSlow: "o.m.Lock()"
OnceLock(g) ==
    /\ gor[g].pc = "lock"
    /\ initRegescape.m = 0
    /\ initRegescape' = [initRegescape EXCEPT !.m = 1]
    /\ Goto(g, "slow")
    /\ UNCHANGED <<rxRegEscape, inits>>
    /\ UNCHANGED <<parseVars, Filter, calls, unitVars>>

\* Once.doSlow: "if o.done.Load() == 0 { defer o.done.Store(1); f() }"
OnceCheck(g) ==
    /\ gor[g].pc = "slow"
    /\ Goto(g, IF initRegescape.done = 0 THEN "init" ELSE "unlock")
    /\ UNCHANGED <<initRegescape, rxRegEscape, inits>>
    /\ UNCHANGED <<parseVars, Filter, calls, unitVars>>

\* the function handed to Do: "p.rxRegEscape = strings.NewReplacer(oldNew...)"
InitRegescape(g) ==
    /\ gor[g].pc = "init"
    /\ rxRegEscape' = "replacer"
    /\ inits' = inits + 1
    /\ Goto(g, "store")
    /\ UNCHANGED initRegescape
    /\ UNCHANGED <<parseVars, Filter, calls, unitVars>>

\* Once.doSlow: the deferred "o.done.Store(1)"
OnceStore(g) ==
    /\ gor[g].pc = "store"
    /\ initRegescape' = [initRegescape EXCEPT !.done = 1]
    /\ Goto(g, "unlock")
    /\ UNCHANGED <<rxRegEscape, inits>>
    /\ UNCHANGED <<parseVars, Filter, calls, unitVars>>

\* Once.doSlow: the deferred "o.m.Unlock()"
OnceUnlock(g) ==
    /\ gor[g].pc = "unlock"
    /\ initRegescape' = [initRegescape EXCEPT !.m = 0]
    /\ Goto(g, "replace")
    /\ UNCHANGED <<rxRegEscape, inits>>
    /\ UNCHANGED <<parseVars, Filter, calls, unitVars>>

\* regEscape: "return p.rxRegEscape.Replace(val)"; Replace on the nil
\* replacer panics.  The goroutine then goes on with its next text.
Replace(g) ==
    /\ gor[g].pc = "replace"
    /\ gor' = [gor EXCEPT ![g] =
                 IF rxRegEscape = "nil"
                 THEN [pc |-> "panic", todo |-> gor[g].todo, out |-> gor[g].out]
                 ELSE [pc   |-> IF Len(gor[g].todo) > 1 THEN "start" ELSE "done",
                       todo |-> Tail(gor[g].todo),
                       out  |-> Append(gor[g].out, regEscape(Head(gor[g].todo)))]]
    /\ UNCHANGED <<initRegescape, rxRegEscape, inits>>
    /\ UNCHANGED <<parseVars, Filter, calls, unitVars>>

OnceNext ==
    \/ \E g \in DOMAIN gor : OnceDo(g)
    \/ \E g \in DOMAIN gor : OnceLock(g)
    \/ \E g \in DOMAIN gor : OnceCheck(g)
    \/ \E g \in DOMAIN gor : InitRegescape(g)
    \/ \E g \in DOMAIN gor : OnceStore(g)
    \/ \E g \in DOMAIN gor : OnceUnlock(g)
    \/ \E g \in DOMAIN gor : Replace(g)

OnceSpec == OnceInit /\ [][OnceNext]_vars

\* the texts of a list, each escaped
RECURSIVE EscapedTexts(_)
EscapedTexts(texts) ==
    IF texts = <<>> THEN <<>>
    ELSE <<EscapedText(Head(texts))>> \o EscapedTexts(Tail(texts))

\* C18, of every state: the initializer has run at most once, a goroutine
\* that reads the table finds it built and the Once done, no goroutine has
\* panicked, and a goroutine that has finished holds the escaped texts of its
\* own call
InitializedOnce ==
    /\ inits <= 1
    /\ \A g \in DOMAIN gor :
          /\ gor[g].pc # "panic"
          /\ gor[g].pc = "replace" => rxRegEscape = "replacer" /\ initRegescape.done = 1
          /\ gor[g].pc = "done" =>
                \E t \in OnceTexts : gor[g].out = EscapedTexts(t) /\ gor[g].todo = <<>>

\* C18, of every step: the table, once built, is not written again
TableIsImmutable == rxRegEscape # "nil" => rxRegEscape' = rxRegEscape /\ inits' = inits

\* C18: under any interleaving of concurrent calls on one Parser the
\* initializer of the escaping table runs at most once, no call reads the
\* table before the initialization has completed, the table is never written
\* again afterwards, and every call builds its own result.
C18_TableInitializedOnce ==
    []InitializedOnce /\ [][TableIsImmutable]_vars

\* a goroutine that saw the Once not done has got the mutex after another
\* goroutine has built the table, and finds the Once done
C18_Witness ==
    /\ inits = 1
    /\ initRegescape = [done |-> 1, m |-> 1]
    /\ \E g \in DOMAIN gor : gor[g].pc = "slow"
    /\ \E g \in DOMAIN gor : gor[g].pc = "done"

(***************************************************************************)
(* Claims on the operator's methods, under UnitSpec                        *)
(***************************************************************************)

Symbol(text) == mongoOpPrefix \o text

\* the single-value operators of the pattern families
SinglePatternOperators ==
    {operatorRegex, operatorRegexIgnoreCase, operatorContains,
     operatorContainsIgnoreCase, operatorStartsWith, operatorStartsWithIgnoreCase}

\* the operators whose symbol is their own text
ComparisonOperators ==
    {operatorNotEquals, operatorGreaterThan, operatorGreaterThanOrEquals,
     operatorLessThan, operatorLessThanOrEquals, operatorExists}

\* the symbol the operator table gives for a token of the vocabulary
SymbolOf(o) ==
    IF o \in {operatorAll, operatorAllArray} THEN Symbol(operatorAll)
    ELSE IF o = operatorNotIn THEN Symbol(operatorNotIn)
    ELSE IF o \in {operatorEquals, operatorEqualArray} \cup SinglePatternOperators
         THEN Symbol(operatorEquals)
    ELSE IF o \in ComparisonOperators THEN Symbol(o)
    ELSE Symbol(operatorIn)

\* C23: the database symbol of a valid operator is $all for all and all[],
\* $nin for nin, $eq for eq, eqa and the single-value pattern operators, the
\* prefix and the operator's own text for ne, gt, gte, lt, lte and exists,
\* and $in for every other multi-value operator
C23_SymbolTable ==
    ret.fn = "MongoOperator" => ret.r = SymbolOf(call.o)

\* icoin, a multi-value member of the contains family, was mapped to $in
C23_Witness ==
    /\ ret.fn = "MongoOperator"
    /\ call.o = operatorContainsInIgnoreCase
    /\ ret.r = Symbol(operatorIn)

\* the spellings of the regex, contains and starts-with families that carry
\* the prefix i: plain, in-suffixed and bracket forms
IgnoreCaseSpellings ==
    {ignoreCasePrefix \o family \o form :
        family \in {operatorRegex, operatorContains, operatorStartsWith},
        form \in {<<>>, operatorIn, operatorInArray}}

\* C24: for every valid operator, IsIgnoreCaseOperator is true and RegexOpts
\* is "i" exactly when the operator is a regex, contains or starts-with
\* spelling with the prefix i, in plain, in-suffixed or bracket form; for
\* every other valid operator the flag is false and RegexOpts is empty
C24_IgnoreCaseIsThePrefix ==
    /\ ret.fn = "IsIgnoreCaseOperator" => (ret.r <=> call.o \in IgnoreCaseSpellings)
    /\ ret.fn = "RegexOpts" =>
          ret.r = (IF call.o \in IgnoreCaseSpellings THEN ignoreCasePrefix ELSE <<>>)

\* C25: canonicalisation is idempotent, the canonical form of a canonical form
\* is that form, and no canonical form carries the bracket suffix
C25_CanonicalIsIdempotent ==
    ret.fn = "CommonOperator" =>
        /\ CommonOperator(ret.r) = ret.r
        /\ ~HasSuffix(ret.r, operatorInArray)

\* a bracket spelling was canonicalised: ire[] became irein
C25_Witness ==
    /\ ret.fn = "CommonOperator"
    /\ call.o = operatorRegexInArrayIgnoreCase
    /\ ret.r = operatorRegexInIgnoreCase

\* C26: every valid operator is its own canonical form, o.Is(o.CommonOperator())
C26_IsItsCanonicalForm ==
    ret.fn = "Is" /\ call.op = CommonOperator(call.o) => ret.r

\* a bracket spelling was compared with its canonical form: re[] is rein
C26_Witness ==
    /\ ret.fn = "Is"
    /\ call.o = operatorRegexInArray
    /\ call.op = operatorRegexIn
    /\ ret.r

\* o.Is(op) returned what it returns for o = op
IsReflexiveHere == call.o = call.op => ret.r

\* o.Is(op) and op.Is(o) only for o = op
IsAntisymmetricHere == ret.r /\ Is(call.op, call.o) => call.o = call.op

\* the operators c for which o.Is(op) and op.Is(c) but not o.Is(c)
BrokenChains ==
    IF ret.r THEN {c \in Vocabulary : Is(call.op, c) /\ ~Is(call.o, c)} ELSE {}

\* C27: Is is a partial order on the valid operators: reflexive, antisymmetric
\* and transitive
C27_IsPartialOrder ==
    ret.fn = "Is" =>
        /\ IsReflexiveHere
        /\ IsAntisymmetricHere
        /\ BrokenChains = {}

\* C27 as amended: Is is reflexive and antisymmetric on the valid operators,
\* and transitive but for one chain: all[] is [] and [] is in, and all[] is
\* not in
C27_IsOrderButForAllArray ==
    ret.fn = "Is" =>
        /\ IsReflexiveHere
        /\ IsAntisymmetricHere
        /\ BrokenChains =
              (IF call.o = operatorAllArray /\ call.op = operatorInArray
               THEN {operatorIn} ELSE {})

\* all[] was found to be [], the first link of the chain that does not close
C27_Witness ==
    /\ ret.fn = "Is"
    /\ call.o = operatorAllArray
    /\ call.op = operatorInArray
    /\ ret.r
    /\ Is(operatorInArray, operatorIn)
    /\ ~Is(operatorAllArray, operatorIn)

(***************************************************************************)
(* Claims on normailzeFields, under UnitSpec                               *)
(***************************************************************************)

\* the values of the operators of one field after the needs-split expansion
Expanded(ops) ==
    [o \in DOMAIN ops |->
        IF Len(ops[o]) = 1 /\ NeedSplitString(o)
        THEN Split(ops[o][1], arrayDelimiter) ELSE ops[o]]

\* the field of the calls of normailzeFields
TheField == <<"f">>

\* C29: normalisation loses no supplied value: every value is held by the
\* operator groups of the normalised field as often as the operators of the
\* field hold it after the needs-split expansion
C29_NoValueIsLost ==
    ret.fn = "normailzeFields" =>
        LET given == Expanded(call.fields[TheField])
            got   == ret.r[TheField]
        IN  \A v \in GroupedValues(given) \cup GroupedValues(got) :
               GroupedTimes(got, v) = GroupedTimes(given, v)

\* the operators of the field whose values are grouped under the canonical
\* operator cop, with their expanded values
GroupOf(given, cop) ==
    [o \in {x \in DOMAIN given : CommonOperator(x) = cop} |-> given[o]]

\* the number of values of the operator groups
GroupedCount(ops) ==
    Cardinality(UNION {{<<op, i>> : i \in 1..Len(ops[op])} : op \in DOMAIN ops})

\* the canonical multi-value operators the field was given
MultiValueGroups(given) == {CommonOperator(o) : o \in {x \in DOMAIN given : IsMultiVal(x)}}

\* C22: a group of a valid multi-value operator that ends with exactly one
\* value is in the normalised output under the operator's single-value form
\* and holds that value; a group of two or more values stays under the
\* canonical multi-value operator with its values
C22_OneValueIsDowngraded ==
    ret.fn = "normailzeFields" =>
        LET given == Expanded(call.fields[TheField])
            got   == ret.r[TheField]
        IN  \A cop \in MultiValueGroups(given) :
               LET group == GroupOf(given, cop)
                   single == SingleValueOperator(cop)
               IN  IF GroupedCount(group) = 1
                   THEN /\ single \in DOMAIN got
                        /\ GroupedValues(group) \subseteq GroupedValues(GroupOf(got, single))
                   ELSE /\ cop \in DOMAIN got
                        /\ \A v \in GroupedValues(group) :
                              GroupedTimes(GroupOf(got, cop), v) = GroupedTimes(group, v)

(***************************************************************************)
(* Parse on queries of the pattern and multi-value operators of one field  *)
(***************************************************************************)

MaxPatternKeys == 2

\* the raw keys of the queries, each with the value lists it may hold
PatternMenu ==
    <<"f">> :> {<<<<"a">>>>} @@
    <<"f", "_", "_", "r", "e">> :> {<<<<"a">>>>} @@
    <<"f", "_", "_", "c", "o">> :> {<<<<"a">>>>} @@
    <<"f", "_", "_", "c", "o", "i", "n">> :> {<<<<"b">>>>, <<<<"b", ",", "c">>>>} @@
    <<"f", "_", "_", "c", "o", "[", "]">> :> {<<<<"d">>, <<"e">>>>} @@
    <<"f", "_", "_", "n", "i", "n">> :> {<<<<"b">>>>, <<<<"b", ",", "c">>>>} @@
    <<"f", "_", "_", "i", "n">> :> {<<<<"b">>>>} @@
    <<"f", "_", "_", "g", "t">> :> {<<<<"a">>>>} @@
    <<"_", "_", "s", "o", "r", "t">> :> {<<<<"f">>>>}

RECURSIVE PatternQueriesOver(_)
PatternQueriesOver(keys) ==
    IF keys = {} THEN {EmptyMap}
    ELSE LET k == CHOOSE k \in keys : TRUE
         IN  {Put(q, k, vs) : q \in PatternQueriesOver(keys \ {k}), vs \in PatternMenu[k]}

PatternQueries ==
    UNION {PatternQueriesOver(keys) :
              keys \in {D \in SUBSET DOMAIN PatternMenu : Cardinality(D) <= MaxPatternKeys}}

\* Parse(query) by a parser without field specifications
PatternInit ==
    /\ query \in PatternQueries
    /\ parser \in [Fields : {NoFields}, ValidateFields : BOOLEAN]
    /\ pc = "extract"
    /\ fields = EmptyMap
    /\ pending = {}
    /\ cur = <<>>
    /\ Filter = EmptyMap
    /\ Sort = <<>>
    /\ Limit = 0
    /\ Skip = 0
    /\ sortFields = <<>>
    /\ errs = <<>>
    /\ err = "nil"
    /\ calls = <<>>
    /\ UnitIdle
    /\ OnceIdle

PatternSpec == PatternInit /\ [][Next]_vars

\* the symbols of the database the vocabulary stands for
VocabularySymbols ==
    {Symbol(t) : t \in {operatorEquals, operatorNotEquals, operatorGreaterThan,
                        operatorGreaterThanOrEquals, operatorLessThan,
                        operatorLessThanOrEquals, operatorExists, operatorIn,
                        operatorNotIn, operatorAll}}

\* C30: the single-value form of a valid operator is a token of the
\* vocabulary, so the operators normailzeFields files the values of a query of
\* valid operators under are tokens, and every key of a nested entry of the
\* Filter is one of $eq, $ne, $gt, $gte, $lt, $lte, $exists, $in, $nin, $all
C30_KeysAreVocabularySymbols ==
    /\ \A f \in DOMAIN fields : DOMAIN fields[f] \subseteq Vocabulary
    /\ \A f \in DOMAIN Filter :
          Filter[f].isMap => DOMAIN Filter[f].mm \subseteq VocabularySymbols

(***************************************************************************)
(* Claims on the Filter of Parse, under PatternSpec                        *)
(***************************************************************************)

CoKey   == TheField \o delimiter \o operatorContains
CoinKey == TheField \o delimiter \o operatorContainsIn

\* the raw keys of PatternMenu whose values go under $eq as well: eq, re and
\* a lone in value
OtherEqKeys ==
    {TheField, TheField \o delimiter \o operatorRegex, TheField \o delimiter \o operatorIn}

\* the values of the coin key after the needs-split expansion
CoinValues ==
    IF Len(query[CoinKey]) = 1 THEN Split(query[CoinKey][1], arrayDelimiter)
    ELSE query[CoinKey]

\* the patterns of the co and of the coin contribution
CoPatterns   == {PatternOf(operatorContains, query[CoKey][i]) : i \in 1..Len(query[CoKey])}
CoinPatterns == {PatternOf(operatorContainsIn, CoinValues[i]) : i \in 1..Len(CoinValues)}

\* the items of a stored value
ItemsOf(x) == {x.items[i] : i \in 1..Len(x.items)}

\* Parse has returned the Filter of a query with both contributions
CoAndCoinParsed ==
    /\ Returned
    /\ {CoKey, CoinKey} \subseteq DOMAIN query
    /\ ~parser.ValidateFields

RECURSIVE Replay(_, _)
Replay(filter, cs) ==
    IF cs = <<>> THEN filter
    ELSE Replay(addField(filter, Head(cs).field, Head(cs).op, Head(cs).val), Tail(cs))

\* the history with the calls n and n + 1 in the other order
Swapped(cs, n) ==
    [i \in 1..Len(cs) |-> IF i = n THEN cs[n + 1] ELSE IF i = n + 1 THEN cs[n] ELSE cs[i]]

\* the number of times a stored value holds the item v
TimesIn(x, v) == Cardinality({i \in 1..Len(x.items) : x.items[i] = v})

\* two stored values are the same up to the order of the items of an array
SameValue(x, y) ==
    /\ x.arr = y.arr
    /\ Len(x.items) = Len(y.items)
    /\ \A v \in ItemsOf(x) \cup ItemsOf(y) : TimesIn(x, v) = TimesIn(y, v)
    /\ ~x.arr => x = y

\* two Filters are the same up to the order of the items of their arrays
SameFilter(F, G) ==
    /\ DOMAIN F = DOMAIN G
    /\ \A f \in DOMAIN F :
          /\ F[f].isMap = G[f].isMap
          /\ SameValue(F[f].val, G[f].val)
          /\ DOMAIN F[f].mm = DOMAIN G[f].mm
          /\ \A sym \in DOMAIN F[f].mm : SameValue(F[f].mm[sym], G[f].mm[sym])

\* C28: two AddFilter calls whose operators differ give the same Filter in
\* either order, up to the order of the items of a merged array
C28_CallsCommute ==
    \A n \in 1..(Len(calls) - 1) :
        calls[n].op # calls[n + 1].op => SameFilter(Filter, Replay(EmptyMap, Swapped(calls, n)))

====
